---------------------------- MODULE Spec2Model ----------------------------
(***************************************************************************)
(* A model of statstash (pendo-io/statstash): the recorder operations, the *)
(* config registry and the flusher of StatImplementation, over a shared   *)
(* cache (memcache) and a durable store (datastore).                       *)
(*                                                                         *)
(* Instants are whole minutes since the Unix epoch; durations are minutes. *)
(* Byte strings kept in the cache are modelled by the encoder that made    *)
(* them (gob of a Go type, or decimal ASCII), so that decoding a value     *)
(* with the wrong decoder fails as it does in the program.                 *)
(***************************************************************************)
EXTENDS Integers, Sequences, FiniteSets, TLC

(***************************************************************************)
(* Program constants                                                       *)
(***************************************************************************)
scTypeTiming == "timing"
scTypeGauge == "gauge"
scTypeCounter == "counter"

\* defaultAggregationPeriod = 5 * time.Minute
defaultAggregationPeriod == 5

\* Expiration of a freshly created gauge/timing bucket item
bucketExpiration == 2 * defaultAggregationPeriod

\* Expiration of a cached StatConfig: 24 * time.Hour
configExpiration == 1440

\* getActiveConfigs' cutoff: time.Hour * 24 * 2 before `at`
activeCutoff == 2880

\* time.Time{} (January 1, year 1, 00:00 UTC) in minutes since the Unix epoch
ZeroTime == -1035593280

\* the largest time.Duration (1<<63 - 1 nanoseconds) in whole minutes;
\* Time.Sub saturates at it
maxDuration == 153722867

\* an item without Expiration never expires
NoExpiration == 0

(***************************************************************************)
(* Bounds of the model                                                     *)
(***************************************************************************)
\* the clock starts at StartTime (2014-10-04T12:00:00Z) and runs MaxTime minutes
StartTime == 23540400
MaxTime == 5
\* number of public calls in a behaviour
MaxOps == 3
\* number of external calls that fail in a behaviour
MaxFaults == 1

CounterIds == {<<"foo", "a">>}
GaugeIds == {<<"temperature", "raleigh">>}
TimingIds == {<<"subroutine", "A">>}
Deltas == {-1, 2}
Values == {10, 16}
\* sample rates and uniform draws, in hundredths
SampleRates == {50, 100}
Draws == {25, 75}
TickSteps == {4, 5}

VARIABLES
    now,        \* time.Now(), minutes since the Unix epoch
    cache,      \* memcache: key -> [Value, Expires]
    ds,         \* datastore kind StatConfig: key name -> StatConfig
    last,       \* the most recent public call: arguments, result, effects
    okInc,      \* history: bucket key -> sum of the deltas of ok increments
    okSamples,  \* history: bucket key -> values of ok gauge/timing recordings
    disturbed,  \* history: bucket keys Purge has tried to delete
    nops,       \* number of public calls made
    nfaults,    \* number of external calls that have failed
    delivery,   \* history: what the sink was handed, and the ticks delivered
    handlers,   \* handler instances running a call step by step
    timings,    \* a timing bucket and the StatDataTiming made from it
    registry    \* history: the getStatConfig calls made and what they saw

\* the state other than that of the interleaving of whole public calls
others == <<delivery, handlers, timings, registry>>

vars == <<now, cache, ds, last, okInc, okSamples, disturbed, nops, nfaults,
          delivery, handlers, timings, registry>>

(***************************************************************************)
(* Finite maps                                                             *)
(***************************************************************************)
EmptyMap == [x \in {} |-> 0]

MapPut(f, k, v) == [x \in (DOMAIN f) \cup {k} |-> IF x = k THEN v ELSE f[x]]

MapDrop(f, ks) == [x \in (DOMAIN f) \ ks |-> f[x]]

Max(a, b) == IF a >= b THEN a ELSE b

(***************************************************************************)
(* time.Time                                                               *)
(***************************************************************************)
\* t.Sub(u): the difference, saturated at the largest Duration
Sub(t, u) ==
    LET d == t - u
    IN  IF d > maxDuration THEN maxDuration
        ELSE IF d < -maxDuration THEN -maxDuration
        ELSE d

\* a slip: t is rounded to the nearest multiple of d
Truncate_Rounds(t, d) == (t + d \div 2) - ((t + d \div 2 - ZeroTime) % d)

\* t.Truncate(d): t rounded down to a multiple of d since the zero time
Truncate(t, d) == t - ((t - ZeroTime) % d)

\* t.Unix(): seconds since the Unix epoch
Unix(t) == t * 60

getStartOfFlushPeriod(at, offset) ==
    LET startOfPeriod == Truncate(at, defaultAggregationPeriod)
    IN  IF offset # 0
        THEN startOfPeriod + offset * defaultAggregationPeriod
        ELSE startOfPeriod

(***************************************************************************)
(* Encodings                                                               *)
(***************************************************************************)
\* a slip: the LastRead of a StatConfig is not encoded
gobMarshal_ZeroesLastRead(typ, v) ==
    [enc |-> "gob", typ |-> typ,
     v |-> IF typ = "StatConfig" THEN [v EXCEPT !.LastRead = ZeroTime] ELSE v]

\* gob.NewEncoder(&buf).Encode(v), for v of Go type typ
gobMarshal(typ, v) == [enc |-> "gob", typ |-> typ, v |-> v]

\* gob.NewDecoder(data).Decode(&v), for v of Go type typ
gobUnmarshal(data, typ) ==
    IF data.enc = "gob" /\ data.typ = typ
    THEN [err |-> FALSE, v |-> data.v]
    ELSE [err |-> TRUE, v |-> <<>>]

\* the decimal ASCII memcache keeps for an incremented value
asciiUint(n) == [enc |-> "ascii", typ |-> "uint64", v |-> n]

\* strconv.ParseUint(string(data), 10, 64)
ParseUint(data) ==
    IF data.enc = "ascii"
    THEN [err |-> FALSE, v |-> data.v]
    ELSE [err |-> TRUE, v |-> 0]

(***************************************************************************)
(* StatConfig and keys                                                     *)
(***************************************************************************)
StatConfig(typ, name, source, lastRead) ==
    [Name |-> name, Source |-> source, Type |-> typ, LastRead |-> lastRead]

BucketKey(sc, t, offset) ==
    "ss-metric:" \o sc.Type \o "-" \o sc.Name \o "-" \o sc.Source \o "-"
        \o ToString(Unix(getStartOfFlushPeriod(t, offset)))

getStatConfigKeyName(typ, name, source) ==
    typ \o "-" \o name \o "-" \o source

getStatConfigMemcacheKey(typ, name, source) ==
    "ss-conf:" \o getStatConfigKeyName(typ, name, source)

lpfKey == "ss-lpf"

(***************************************************************************)
(* The cache (appwrap.Memcache) as the program uses it                     *)
(***************************************************************************)
CacheItem(value, expiration, t) ==
    [Value |-> value,
     Expires |-> IF expiration = NoExpiration THEN NoExpiration ELSE t + expiration]

Expired(item, t) == item.Expires # NoExpiration /\ item.Expires <= t

\* the key is present and has not expired
CacheHas(c, key, t) == key \in DOMAIN c /\ ~Expired(c[key], t)

\* expired items are gone
CacheSweep(c, t) == MapDrop(c, {k \in DOMAIN c : Expired(c[k], t)})

\* cache.Increment(key, delta, initial): the decimal value, created as
\* initial when absent, plus delta; a decrement below zero is capped at
\* zero.  An item it creates has no expiration.  A value that is not
\* a decimal number is an error.
cacheIncrement(c, key, delta, initial, t) ==
    IF CacheHas(c, key, t)
    THEN LET p == ParseUint(c[key].Value)
         IN  IF p.err THEN [err |-> TRUE, cache |-> c]
             ELSE [err |-> FALSE,
                   cache |-> [c EXCEPT ![key].Value = asciiUint(Max(0, p.v + delta))]]
    ELSE [err |-> FALSE,
          cache |-> MapPut(c, key,
                       [Value |-> asciiUint(Max(0, initial + delta)),
                        Expires |-> NoExpiration])]

(***************************************************************************)
(* Config registry                                                         *)
(***************************************************************************)
\* a slip: the error of the durable write is returned to the caller
getStatConfig_PutErrorReturned(c, d, t, typ, name, source, F) ==
    LET ck == getStatConfigMemcacheKey(typ, name, source)
        k  == getStatConfigKeyName(typ, name, source)
    IN  IF CacheHas(c, ck, t) /\ "conf.Get" \notin F
        THEN LET u == gobUnmarshal(c[ck].Value, "StatConfig")
             IN  IF u.err
                 THEN [err |-> "decode", sc |-> StatConfig("", "", "", ZeroTime),
                       cache |-> c, ds |-> d, calls |-> {"conf.Get"}]
                 ELSE [err |-> "nil", sc |-> u.v,
                       cache |-> c, ds |-> d, calls |-> {"conf.Get"}]
        ELSE IF "ds.Get" \in F
        THEN [err |-> "ds.Get", sc |-> StatConfig("", "", "", ZeroTime),
              cache |-> c, ds |-> d, calls |-> {"conf.Get", "ds.Get"}]
        ELSE IF "ds.Put" \in F
        THEN [err |-> "ds.Put", sc |-> StatConfig("", "", "", ZeroTime),
              cache |-> c, ds |-> d, calls |-> {"conf.Get", "ds.Get", "ds.Put"}]
        ELSE LET sc0 == IF k \in DOMAIN d THEN d[k]
                        ELSE StatConfig(typ, name, source, ZeroTime)
                 sc  == [sc0 EXCEPT !.LastRead = t]
                 c2  == IF "conf.Add" \notin F /\ ~CacheHas(c, ck, t)
                        THEN MapPut(c, ck,
                                 CacheItem(gobMarshal("StatConfig", sc),
                                           configExpiration, t))
                        ELSE c
             IN  [err |-> "nil", sc |-> sc, cache |-> c2, ds |-> MapPut(d, k, sc),
                  calls |-> {"conf.Get", "ds.Get", "ds.Put", "conf.Add"}]

\* getStatConfig(typ, name, source), with the external calls named in F
\* failing; yields the config, the error, and the cache and store it leaves
getStatConfig(c, d, t, typ, name, source, F) ==
    LET ck == getStatConfigMemcacheKey(typ, name, source)
        k  == getStatConfigKeyName(typ, name, source)
    IN  IF CacheHas(c, ck, t) /\ "conf.Get" \notin F
        THEN LET u == gobUnmarshal(c[ck].Value, "StatConfig")
             IN  IF u.err
                 THEN [err |-> "decode", sc |-> StatConfig("", "", "", ZeroTime),
                       cache |-> c, ds |-> d, calls |-> {"conf.Get"}]
                 ELSE [err |-> "nil", sc |-> u.v,
                       cache |-> c, ds |-> d, calls |-> {"conf.Get"}]
        ELSE IF "ds.Get" \in F
        THEN [err |-> "ds.Get", sc |-> StatConfig("", "", "", ZeroTime),
              cache |-> c, ds |-> d, calls |-> {"conf.Get", "ds.Get"}]
        ELSE LET sc0 == IF k \in DOMAIN d THEN d[k]
                        ELSE StatConfig(typ, name, source, ZeroTime)
                 sc  == [sc0 EXCEPT !.LastRead = t]
                 putOk == "ds.Put" \notin F
                 d2  == IF putOk THEN MapPut(d, k, sc) ELSE d
                 \* cache.Add stores only when the key is absent
                 c2  == IF putOk /\ "conf.Add" \notin F /\ ~CacheHas(c, ck, t)
                        THEN MapPut(c, ck,
                                 CacheItem(gobMarshal("StatConfig", sc),
                                           configExpiration, t))
                        ELSE c
             IN  [err |-> "nil", sc |-> sc, cache |-> c2, ds |-> d2,
                  calls |-> {"conf.Get", "ds.Get", "ds.Put"}
                            \cup (IF putOk THEN {"conf.Add"} ELSE {})]

\* getBucketKey(typ, name, source, at)
getBucketKey(c, d, t, typ, name, source, at, F) ==
    LET keyOf(r) ==
            [err |-> r.err,
             key |-> IF r.err # "nil" THEN "" ELSE BucketKey(r.sc, at, 0),
             cache |-> r.cache, ds |-> r.ds, calls |-> r.calls]
    IN  keyOf(getStatConfig(c, d, t, typ, name, source, F))


(***************************************************************************)
(* Faults: the external calls (cache, store, sink) that fail in one public *)
(* call.  F names the failing call sites; calls names the ones reached.    *)
(***************************************************************************)
Faults(points) ==
    {F \in SUBSET points : nfaults + Cardinality(F) <= MaxFaults}

ConfigFaults == {"conf.Get", "ds.Get", "ds.Put", "conf.Add"}
CounterFaults == ConfigFaults \cup {"cache.Increment"}
SampleFaults == ConfigFaults \cup {"bucket.Get", "bucket.Set"}
FlushFaults == {"lpf.Get", "ds.Query", "cache.GetMulti", "sink.Flush", "lpf.Set"}
PurgeFaults == {"ds.GetAll", "ds.DeleteMulti", "cache.DeleteMulti"}

\* what a flush remembers of the call made just before it: a flush, or not
NoFlush == [op |-> "other", ps |-> 0, force |-> FALSE, sink |-> "none",
            res |-> "nil", lpfRead |-> "none"]

Brief(l) ==
    IF l.op = "UpdateBackend"
    THEN [op |-> l.op, ps |-> l.ps, force |-> l.force, sink |-> l.sink,
          res |-> l.res, lpfRead |-> l.lpfRead]
    ELSE NoFlush

\* what is remembered of a public call once it has returned
NoCall == [op |-> "none", key |-> "", value |-> 0, res |-> "nil",
           ps |-> 0, force |-> FALSE, sink |-> "none", lpfRead |-> "none",
           lpfWrite |-> "none", lpfBefore |-> ZeroTime, calls |-> {},
           batch |-> {},
           before |-> NoFlush]

(***************************************************************************)
(* Recorder: counters                                                      *)
(***************************************************************************)
\* IncrementCounterBy(name, source, delta): its result and what it leaves
incrementCounterBy(c, d, t, name, source, delta, F) ==
    LET incremented(b, i) ==
            IF "cache.Increment" \in F \/ i.err
            THEN [res |-> "cache.Increment", key |-> b.key,
                  cache |-> b.cache, ds |-> b.ds,
                  calls |-> b.calls \cup {"cache.Increment"}]
            ELSE [res |-> "nil", key |-> b.key,
                  cache |-> i.cache, ds |-> b.ds,
                  calls |-> b.calls \cup {"cache.Increment"}]
        withKey(b) ==
            IF b.err # "nil"
            THEN [res |-> b.err, key |-> "", cache |-> b.cache, ds |-> b.ds,
                  calls |-> b.calls]
            ELSE incremented(b, cacheIncrement(b.cache, b.key, delta, 0, t))
    IN  withKey(getBucketKey(c, d, t, scTypeCounter, name, source, t, F))

CounterStep(op, name, source, delta, F) ==
    \E r \in {incrementCounterBy(cache, ds, now, name, source, delta, F)} :
        /\ nops < MaxOps
        /\ F \subseteq r.calls
        /\ cache' = r.cache
        /\ ds' = r.ds
        /\ okInc' = IF r.res = "nil"
                    THEN MapPut(okInc, r.key,
                                (IF r.key \in DOMAIN okInc THEN okInc[r.key] ELSE 0)
                                + delta)
                    ELSE okInc
        /\ last' = [NoCall EXCEPT !.op = op, !.key = r.key, !.value = delta,
                                  !.res = r.res, !.calls = r.calls]
        /\ nops' = nops + 1
        /\ nfaults' = nfaults + Cardinality(F)
        /\ UNCHANGED <<now, okSamples, disturbed, others>>

IncrementCounter ==
    \E id \in CounterIds, F \in Faults(CounterFaults) :
        CounterStep("IncrementCounter", id[1], id[2], 1, F)

IncrementCounterBy ==
    \E id \in CounterIds, delta \in Deltas, F \in Faults(CounterFaults) :
        CounterStep("IncrementCounterBy", id[1], id[2], delta, F)

\* peekCounter(name, source, at): the value it returns and its error
peekCounter(c, d, t, name, source, F) ==
    LET parsed(p) == [res |-> IF p.err THEN "parse" ELSE "nil", value |-> p.v]
        withKey(b) ==
            IF b.err # "nil"
            THEN [res |-> b.err, value |-> 0]
            ELSE IF CacheHas(b.cache, b.key, t) /\ "bucket.Get" \notin F
            THEN parsed(ParseUint(b.cache[b.key].Value))
            ELSE [res |-> "cache.Get", value |-> 0]
    IN  withKey(getBucketKey(c, d, t, scTypeCounter, name, source, t, F))

(***************************************************************************)
(* Recorder: gauges and timings                                            *)
(***************************************************************************)
\* a slip: a gauge accumulates its samples as a timing does
applySample_AlwaysAppend(typ, cached, value) == Append(cached, value)

\* a slip: a timing keeps its last sample only, as a gauge does
applySample_AlwaysReplace(typ, cached, value) == <<value>>

\* a slip: the new sample is put in front of what was cached
applySample_Prepends(typ, cached, value) == <<value>> \o cached

\* a slip: a gauge keeps what was cached after the new sample
applySample_GaugeKeepsOld(typ, cached, value) ==
    IF typ = scTypeTiming THEN Append(cached, value) ELSE <<value>> \o cached

\* a slip: the switch has no case for a gauge
applySample_NoGaugeCase(typ, cached, value) ==
    IF typ = scTypeTiming THEN Append(cached, value) ELSE cached

\* the switch on typ: a timing appends, a gauge replaces
applySample(typ, cached, value) ==
    IF typ = scTypeTiming THEN Append(cached, value)
    ELSE IF typ = scTypeGauge THEN <<value>>
    ELSE cached

\* a slip: the sample's value is left out of the error
NewErrStatDropped_LosesValue(typ, name, source, t, value, err) ==
    [typ |-> typ, name |-> name, source |-> source, t |-> t, value |-> 0,
     err |-> err]

\* NewErrStatDropped(typ, name, source, t, value, err)
NewErrStatDropped(typ, name, source, t, value, err) ==
    [typ |-> typ, name |-> name, source |-> source, t |-> t, value |-> value,
     err |-> err]

\* a slip: the draw is compared the other way round
notSampled_Inverted(sampleRate, draw) == sampleRate < 100 /\ draw < sampleRate

\* sampleRate < 1.0 && s.randGen.Float64() > sampleRate, in hundredths
notSampled(sampleRate, draw) == sampleRate < 100 /\ draw > sampleRate

\* recordGaugeOrTiming(typ, name, source, value, sampleRate), the uniform
\* draw of randGen.Float64() being draw
recordGaugeOrTiming(c, d, t, typ, name, source, value, sampleRate, draw, F) ==
    IF notSampled(sampleRate, draw)
    THEN [res |-> "ErrStatNotSampled", cause |-> "nil", key |-> "",
          error |-> "ErrStatNotSampled",
          cache |-> c, ds |-> d, calls |-> {}]
    ELSE
    LET withKey(b) ==
            IF b.err # "nil"
            THEN [res |-> "ErrStatDropped", cause |-> b.err, key |-> "",
                  error |-> NewErrStatDropped(typ, name, source, t, value,
                                              b.err),
                  cache |-> b.cache, ds |-> b.ds, calls |-> b.calls]
            ELSE IF "bucket.Get" \in F
            THEN [res |-> "ErrStatDropped", cause |-> "cache.Get", key |-> b.key,
                  error |-> NewErrStatDropped(typ, name, source, t, value,
                                              "cache.Get"),
                  cache |-> b.cache, ds |-> b.ds,
                  calls |-> b.calls \cup {"bucket.Get"}]
            ELSE
            LET hit == CacheHas(b.cache, b.key, t)
                \* a decoding error is not noticed: the test reads the error of
                \* cache.Get, which is nil here, and cached stays empty
                cached == IF hit
                          THEN gobUnmarshal(b.cache[b.key].Value, "[]float64").v
                          ELSE <<>>
                \* a new item carries the bucket expiration; the item cache.Get
                \* returned carries none
                item == IF hit
                        THEN CacheItem(gobMarshal("[]float64",
                                           applySample(typ, cached, value)),
                                       NoExpiration, t)
                        ELSE CacheItem(gobMarshal("[]float64",
                                           applySample(typ, cached, value)),
                                       bucketExpiration, t)
            IN  IF "bucket.Set" \in F
                THEN [res |-> "ErrStatDropped", cause |-> "cache.Set",
                      error |-> NewErrStatDropped(typ, name, source, t, value,
                                                  "cache.Set"),
                      key |-> b.key, cache |-> b.cache, ds |-> b.ds,
                      calls |-> b.calls \cup {"bucket.Get", "bucket.Set"}]
                ELSE [res |-> "nil", cause |-> "nil", key |-> b.key,
                      error |-> "nil",
                      cache |-> MapPut(b.cache, b.key, item), ds |-> b.ds,
                      calls |-> b.calls \cup {"bucket.Get", "bucket.Set"}]
    IN  withKey(getBucketKey(c, d, t, typ, name, source, t, F))

SampleStep(op, typ, name, source, value, sampleRate, draw, F) ==
    \E r \in {recordGaugeOrTiming(cache, ds, now, typ, name, source, value,
                                   sampleRate, draw, F)} :
        /\ nops < MaxOps
        /\ F \subseteq r.calls
        /\ cache' = r.cache
        /\ ds' = r.ds
        /\ okSamples' = IF r.res = "nil"
                        THEN MapPut(okSamples, r.key,
                                    Append(IF r.key \in DOMAIN okSamples
                                           THEN okSamples[r.key] ELSE <<>>,
                                           value))
                        ELSE okSamples
        /\ last' = [NoCall EXCEPT !.op = op, !.key = r.key, !.value = value,
                                  !.res = r.res, !.calls = r.calls]
        /\ nops' = nops + 1
        /\ nfaults' = nfaults + Cardinality(F)
        /\ UNCHANGED <<now, okInc, disturbed, others>>

RecordGauge ==
    \E id \in GaugeIds, value \in Values, F \in Faults(SampleFaults) :
        \* sampleRate 1.0: no draw is made
        SampleStep("RecordGauge", scTypeGauge, id[1], id[2], value, 100, 0, F)

RecordTiming ==
    \E id \in TimingIds, value \in Values, sampleRate \in SampleRates,
       draw \in Draws, F \in Faults(SampleFaults) :
        SampleStep("RecordTiming", scTypeTiming, id[1], id[2], value,
                   sampleRate, draw, F)

(***************************************************************************)
(* Flusher                                                                 *)
(***************************************************************************)
\* getLastPeriodFlushed(): time.Time{} on any cache.Get error (a miss
\* included) and on a value that does not decode
getLastPeriodFlushed(c, t, F) ==
    IF ~CacheHas(c, lpfKey, t) \/ "lpf.Get" \in F
    THEN ZeroTime
    ELSE LET u == gobUnmarshal(c[lpfKey].Value, "time.Time")
         IN  IF u.err THEN ZeroTime ELSE u.v

\* a slip: the instant of the flush is stored, not the period flushed
updateLastPeriodFlushed_StoresNow(c, t, lastPeriodFlushed, F) ==
    IF "lpf.Set" \in F
    THEN c
    ELSE MapPut(c, lpfKey, CacheItem(gobMarshal("time.Time", t), NoExpiration, t))

\* a slip: the buckets of the flushed period are deleted with the write
updateLastPeriodFlushed_DeletesBuckets(c, t, lastPeriodFlushed, F) ==
    IF "lpf.Set" \in F
    THEN c
    ELSE MapPut(MapDrop(c, {BucketKey(StatConfig(scTypeCounter, id[1], id[2],
                                                 ZeroTime),
                                      lastPeriodFlushed, 0) : id \in CounterIds}
                           \cup
                           {BucketKey(StatConfig(scTypeGauge, id[1], id[2],
                                                 ZeroTime),
                                      lastPeriodFlushed, 0) : id \in GaugeIds}),
                lpfKey,
                CacheItem(gobMarshal("time.Time", lastPeriodFlushed),
                          NoExpiration, t))

\* updateLastPeriodFlushed(lastPeriodFlushed): cache.Set of an item without
\* expiration; the cache it leaves
updateLastPeriodFlushed(c, t, lastPeriodFlushed, F) ==
    IF "lpf.Set" \in F
    THEN c
    ELSE MapPut(c, lpfKey,
                CacheItem(gobMarshal("time.Time", lastPeriodFlushed),
                          NoExpiration, t))

\* a slip: a flush exactly one period after the last one is refused too
tooSoon_Inclusive(periodStart, lastFlushedPeriod, force) ==
    ~force /\ Sub(periodStart, lastFlushedPeriod) <= defaultAggregationPeriod

\* a slip: the sense of force is inverted
tooSoon_WhenForced(periodStart, lastFlushedPeriod, force) ==
    force /\ Sub(periodStart, lastFlushedPeriod) < defaultAggregationPeriod

\* the guard of UpdateBackend: refuse when not forced and too soon
tooSoon(periodStart, lastFlushedPeriod, force) ==
    ~force /\ Sub(periodStart, lastFlushedPeriod) < defaultAggregationPeriod

\* a slip: the error of the iterator is logged and not returned
getActiveConfigs_SwallowsError(d, at, offset, fail, seen) ==
    LET cutoffTime == at - activeCutoff
        hits == {k \in DOMAIN d : d[k].LastRead > cutoffTime}
        got  == IF fail THEN hits \cap seen ELSE hits
        keys == {BucketKey(d[k], at, offset) : k \in got}
    IN  [err |-> "nil",
         cfgs |-> [bk \in keys |->
                      d[CHOOSE k \in got : BucketKey(d[k], at, offset) = bk]]]

\* getActiveConfigs(at, offset): bucket key -> StatConfig for the configs
\* read after the cutoff.  When the iterator fails, the configs of the keys
\* in seen (those iterated before the failure) are returned with the error.
getActiveConfigs(d, at, offset, fail, seen) ==
    LET cutoffTime == at - activeCutoff
        hits == {k \in DOMAIN d : d[k].LastRead > cutoffTime}
        got  == IF fail THEN hits \cap seen ELSE hits
        keys == {BucketKey(d[k], at, offset) : k \in got}
    IN  [err |-> IF fail THEN "ds.Query" ELSE "nil",
         cfgs |-> [bk \in keys |->
                      d[CHOOSE k \in got : BucketKey(d[k], at, offset) = bk]]]

RECURSIVE Insert(_, _)
Insert(x, s) ==
    IF s = <<>> THEN <<x>>
    ELSE IF x <= Head(s) THEN <<x>> \o s
    ELSE <<Head(s)>> \o Insert(x, Tail(s))

\* sort.Float64s
RECURSIVE SortFloat64s(_)
SortFloat64s(s) ==
    IF s = <<>> THEN <<>> ELSE Insert(Head(s), SortFloat64s(Tail(s)))

RECURSIVE SumTo(_, _)
SumTo(s, n) == IF n = 0 THEN 0 ELSE SumTo(s, n - 1) + s[n]

RECURSIVE SumSquaresTo(_, _)
SumSquaresTo(s, n) == IF n = 0 THEN 0 ELSE SumSquaresTo(s, n - 1) + s[n] * s[n]

\* a slip: 0.9 * count is rounded to the nearest integer, not up
ninthdecile_Round(count) == (9 * count + 5) \div 10

\* int(math.Ceil(0.9 * float64(count)))
ninthdecile(count) == (9 * count + 9) \div 10

\* a slip: an even count takes the upper of the two middle samples
median_UpperMiddle(gm) ==
    IF Len(gm) = 1 THEN gm[1] ELSE gm[(Len(gm) \div 2) + 1]

\* the median of the sorted samples gm (indices from 1 here, from 0 there)
median(gm) ==
    IF Len(gm) = 1 THEN gm[1]
    ELSE IF Len(gm) % 2 = 0
    THEN (gm[Len(gm) \div 2] + gm[(Len(gm) \div 2) + 1]) \div 2
    ELSE gm[(Len(gm) \div 2) + 1]

\* a slip: the extremes are read before the samples are sorted
timingDatum_Unsorted(cfgItem, unsorted) ==
    [kind |-> "StatDataTiming", StatConfig |-> cfgItem,
     Count |-> Len(unsorted),
     Min |-> unsorted[1], Max |-> unsorted[Len(unsorted)],
     Sum |-> SumTo(unsorted, Len(unsorted)),
     SumSquares |-> SumSquaresTo(unsorted, Len(unsorted)),
     Median |-> median(SortFloat64s(unsorted)),
     NinthDecileCount |-> ninthdecile(Len(unsorted)),
     NinthDecileSum |-> SumTo(SortFloat64s(unsorted), ninthdecile(Len(unsorted))),
     NinthDecileValue |-> SortFloat64s(unsorted)[ninthdecile(Len(unsorted))]]

\* the StatDataTiming built from a decoded, non-empty timing bucket
timingDatum(cfgItem, unsorted) ==
    LET gm == SortFloat64s(unsorted)
        count == Len(gm)
        ninthdecileCount == ninthdecile(count)
    IN  [kind |-> "StatDataTiming", StatConfig |-> cfgItem, Count |-> count,
         Min |-> gm[1], Max |-> gm[count], Sum |-> SumTo(gm, count),
         SumSquares |-> SumSquaresTo(gm, count), Median |-> median(gm),
         NinthDecileCount |-> ninthdecileCount,
         NinthDecileSum |-> SumTo(gm, ninthdecileCount),
         NinthDecileValue |-> gm[ninthdecileCount]]

\* a slip: a gauge bucket is summarised as a timing is
summarise_GaugeAsTiming(cfgItem, value) ==
    IF cfgItem.Type \in {scTypeTiming, scTypeGauge}
    THEN LET u == gobUnmarshal(value, "[]float64")
         IN  IF u.err THEN [out |-> "skip"]
             ELSE IF Len(u.v) = 0 THEN [out |-> "panic"]
             ELSE [out |-> "datum", datum |-> timingDatum(cfgItem, u.v)]
    ELSE IF cfgItem.Type = scTypeCounter
    THEN [out |-> "datum",
          datum |-> [kind |-> "StatDataCounter", StatConfig |-> cfgItem,
                     Count |-> ParseUint(value).v]]
    ELSE [out |-> "panic"]

\* a slip: a counter bucket that is not a decimal number is skipped
summarise_BadCounterSkipped(cfgItem, value) ==
    IF cfgItem.Type \in {scTypeTiming, scTypeGauge}
    THEN LET u == gobUnmarshal(value, "[]float64")
         IN  IF u.err THEN [out |-> "skip"]
             ELSE IF Len(u.v) = 0 THEN [out |-> "panic"]
             ELSE IF cfgItem.Type = scTypeTiming
             THEN [out |-> "datum", datum |-> timingDatum(cfgItem, u.v)]
             ELSE [out |-> "datum",
                   datum |-> [kind |-> "StatDataGauge", StatConfig |-> cfgItem,
                              Value |-> u.v[1]]]
    ELSE IF cfgItem.Type = scTypeCounter
    THEN IF ParseUint(value).err THEN [out |-> "skip"]
         ELSE [out |-> "datum",
               datum |-> [kind |-> "StatDataCounter", StatConfig |-> cfgItem,
                          Count |-> ParseUint(value).v]]
    ELSE [out |-> "panic"]

\* the summary of one bucket item: a datum, a skip (bad data) or a panic
summarise(cfgItem, value) ==
    IF cfgItem.Type \in {scTypeTiming, scTypeGauge}
    THEN LET u == gobUnmarshal(value, "[]float64")
         IN  IF u.err THEN [out |-> "skip"]
             ELSE IF Len(u.v) = 0 THEN [out |-> "panic"]
             ELSE IF cfgItem.Type = scTypeTiming
             THEN [out |-> "datum", datum |-> timingDatum(cfgItem, u.v)]
             ELSE [out |-> "datum",
                   datum |-> [kind |-> "StatDataGauge", StatConfig |-> cfgItem,
                              Value |-> u.v[1]]]
    ELSE IF cfgItem.Type = scTypeCounter
    THEN [out |-> "datum",
          datum |-> [kind |-> "StatDataCounter", StatConfig |-> cfgItem,
                     Count |-> ParseUint(value).v]]
    ELSE [out |-> "panic"]

\* a slip: the configs are enumerated before the refusal
refuse_AfterEnumeration(c, lpfRead) ==
    [res |-> "ErrStatFlushTooSoon", cache |-> c, sink |-> "none",
     batch |-> {}, calls |-> {"lpf.Get", "ds.Query"}, lpfRead |-> lpfRead,
     lpfWrite |-> "none"]

\* the refusal: ErrStatFlushTooSoon after the one read of ss-lpf
refuse(c, lpfRead) ==
    [res |-> "ErrStatFlushTooSoon", cache |-> c, sink |-> "none",
     batch |-> {}, calls |-> {"lpf.Get"}, lpfRead |-> lpfRead,
     lpfWrite |-> "none"]

\* a slip: the period is recorded as flushed before the flusher answers
flushBatch_MarkBeforeFlush(c, t, periodStart, data, F, calls, lpfRead) ==
    IF data = {}
    THEN [res |-> "nil", cache |-> c, sink |-> "none", batch |-> {},
          calls |-> calls, lpfRead |-> lpfRead, lpfWrite |-> "none"]
    ELSE [res |-> IF "sink.Flush" \in F THEN "sink.Flush" ELSE "nil",
          cache |-> updateLastPeriodFlushed(c, t, periodStart, F),
          sink |-> IF "sink.Flush" \in F THEN "err" ELSE "ok",
          batch |-> data,
          calls |-> calls \cup {"sink.Flush", "lpf.Set"},
          lpfRead |-> lpfRead,
          lpfWrite |-> IF "lpf.Set" \in F THEN "failed" ELSE "ok"]

\* a slip: the flusher's error is logged and not returned
flushBatch_SwallowSinkError(c, t, periodStart, data, F, calls, lpfRead) ==
    IF data = {}
    THEN [res |-> "nil", cache |-> c, sink |-> "none", batch |-> {},
          calls |-> calls, lpfRead |-> lpfRead, lpfWrite |-> "none"]
    ELSE IF "sink.Flush" \in F
    THEN [res |-> "nil", cache |-> c, sink |-> "err", batch |-> data,
          calls |-> calls \cup {"sink.Flush"}, lpfRead |-> lpfRead,
          lpfWrite |-> "none"]
    ELSE [res |-> "nil",
          cache |-> updateLastPeriodFlushed(c, t, periodStart, F),
          sink |-> "ok", batch |-> data,
          calls |-> calls \cup {"sink.Flush", "lpf.Set"},
          lpfRead |-> lpfRead,
          lpfWrite |-> IF "lpf.Set" \in F THEN "failed" ELSE "ok"]

\* a slip: the batch is handed to the flusher also when it is empty
flushBatch_FlushesEmpty(c, t, periodStart, data, F, calls, lpfRead) ==
    IF "sink.Flush" \in F
    THEN [res |-> "sink.Flush", cache |-> c, sink |-> "err", batch |-> data,
          calls |-> calls \cup {"sink.Flush"}, lpfRead |-> lpfRead,
          lpfWrite |-> "none"]
    ELSE [res |-> "nil",
          cache |-> updateLastPeriodFlushed(c, t, periodStart, F),
          sink |-> "ok", batch |-> data,
          calls |-> calls \cup {"sink.Flush", "lpf.Set"},
          lpfRead |-> lpfRead,
          lpfWrite |-> IF "lpf.Set" \in F THEN "failed" ELSE "ok"]

\* the end of UpdateBackend: hand a non-empty batch to the flusher and,
\* when it returned nil, record the period as flushed (the error of that
\* cache.Set is dropped)
flushBatch(c, t, periodStart, data, F, calls, lpfRead) ==
    IF data = {}
    THEN [res |-> "nil", cache |-> c, sink |-> "none", batch |-> {},
          calls |-> calls, lpfRead |-> lpfRead, lpfWrite |-> "none"]
    ELSE IF "sink.Flush" \in F
    THEN [res |-> "sink.Flush", cache |-> c, sink |-> "err", batch |-> data,
          calls |-> calls \cup {"sink.Flush"}, lpfRead |-> lpfRead,
          lpfWrite |-> "none"]
    ELSE [res |-> "nil",
          cache |-> updateLastPeriodFlushed(c, t, periodStart, F),
          sink |-> "ok", batch |-> data,
          calls |-> calls \cup {"sink.Flush", "lpf.Set"},
          lpfRead |-> lpfRead,
          lpfWrite |-> IF "lpf.Set" \in F THEN "failed" ELSE "ok"]

\* UpdateBackend(periodStart, flusher, flushConfig, force)
updateBackend(c, d, t, periodStart, force, F) ==
    LET lpfRead == IF force THEN "none"
                   ELSE IF "lpf.Get" \in F THEN "failed" ELSE "ok"
        gate == IF force THEN {} ELSE {"lpf.Get"}
    IN  IF tooSoon(periodStart, getLastPeriodFlushed(c, t, F), force)
        THEN refuse(c, lpfRead)
        ELSE
        LET a == getActiveConfigs(d, periodStart, 0, "ds.Query" \in F, {})
        IN  IF a.err # "nil"
            THEN [res |-> a.err, cache |-> c, sink |-> "none", batch |-> {},
                  calls |-> gate \cup {"ds.Query"}, lpfRead |-> lpfRead,
                  lpfWrite |-> "none"]
            ELSE IF DOMAIN a.cfgs = {}
            THEN [res |-> "nil", cache |-> c, sink |-> "none", batch |-> {},
                  calls |-> gate \cup {"ds.Query"}, lpfRead |-> lpfRead,
                  lpfWrite |-> "none"]
            ELSE IF "cache.GetMulti" \in F
            THEN [res |-> "nil", cache |-> c, sink |-> "none", batch |-> {},
                  calls |-> gate \cup {"ds.Query", "cache.GetMulti"},
                  lpfRead |-> lpfRead,
                  lpfWrite |-> "none"]
            ELSE
            LET found == {k \in DOMAIN a.cfgs : CacheHas(c, k, t)}
                sums  == [k \in found |-> summarise(a.cfgs[k], c[k].Value)]
                data  == {sums[k].datum : k \in {x \in found : sums[x].out = "datum"}}
            IN  IF \E k \in found : sums[k].out = "panic"
                THEN [res |-> "panic", cache |-> c, sink |-> "none",
                      batch |-> {},
                      calls |-> gate \cup {"ds.Query", "cache.GetMulti"},
                      lpfRead |-> lpfRead,
                  lpfWrite |-> "none"]
                ELSE flushBatch(c, t, periodStart, data, F,
                                gate \cup {"ds.Query", "cache.GetMulti"},
                                lpfRead)

\* the period starts a flush is asked for: the previous period (doFlush),
\* the current period, and the present instant (as the tests pass it)
PeriodStarts(t) ==
    {getStartOfFlushPeriod(t, -1), getStartOfFlushPeriod(t, 0), t}

UpdateBackend ==
    \E periodStart \in PeriodStarts(now), force \in BOOLEAN,
       F \in Faults(FlushFaults) :
        LET r == updateBackend(cache, ds, now, periodStart, force, F)
        IN  /\ nops < MaxOps
            /\ F \subseteq r.calls
            /\ cache' = r.cache
                /\ last' = [NoCall EXCEPT !.op = "UpdateBackend",
                                      !.ps = periodStart, !.force = force,
                                      !.res = r.res, !.sink = r.sink,
                                      !.lpfRead = r.lpfRead,
                                      !.lpfWrite = r.lpfWrite,
                                      !.lpfBefore = getLastPeriodFlushed(cache, now, {}),
                                      !.calls = r.calls, !.batch = r.batch,
                                      !.before = Brief(last)]
            /\ nops' = nops + 1
            /\ nfaults' = nfaults + Cardinality(F)
            /\ UNCHANGED <<now, ds, okInc, okSamples, disturbed, others>>

(***************************************************************************)
(* Purge                                                                   *)
(***************************************************************************)
\* a slip: only the buckets of the current period are deleted
purge_CurrentPeriodOnly(c, d, t, F) ==
    LET memcacheKeys == {BucketKey(d[k], t, 0) : k \in DOMAIN d}
    IN  IF "ds.GetAll" \in F
        THEN [res |-> "ds.GetAll", cache |-> c, ds |-> d, keys |-> {},
              calls |-> {"ds.GetAll"}]
        ELSE IF DOMAIN d = {}
        THEN [res |-> "nil", cache |-> c, ds |-> d, keys |-> {},
              calls |-> {"ds.GetAll"}]
        ELSE IF "ds.DeleteMulti" \in F
        THEN [res |-> "ds.DeleteMulti", cache |-> c, ds |-> d, keys |-> {},
              calls |-> {"ds.GetAll", "ds.DeleteMulti"}]
        ELSE [res |-> "nil",
              cache |-> IF "cache.DeleteMulti" \in F THEN c
                        ELSE MapDrop(c, memcacheKeys),
              ds |-> MapDrop(d, DOMAIN d),
              keys |-> memcacheKeys,
              calls |-> {"ds.GetAll", "ds.DeleteMulti", "cache.DeleteMulti"}]

\* Purge(): delete every StatConfig and its buckets of this period and of
\* the one before
purge(c, d, t, F) ==
    LET memcacheKeys == {BucketKey(d[k], t, 0) : k \in DOMAIN d}
                        \cup {BucketKey(d[k], t, -1) : k \in DOMAIN d}
    IN  IF "ds.GetAll" \in F
        THEN [res |-> "ds.GetAll", cache |-> c, ds |-> d, keys |-> {},
              calls |-> {"ds.GetAll"}]
        ELSE IF DOMAIN d = {}
        THEN [res |-> "nil", cache |-> c, ds |-> d, keys |-> {},
              calls |-> {"ds.GetAll"}]
        ELSE IF "ds.DeleteMulti" \in F
        THEN [res |-> "ds.DeleteMulti", cache |-> c, ds |-> d, keys |-> {},
              calls |-> {"ds.GetAll", "ds.DeleteMulti"}]
        ELSE [res |-> "nil",
              cache |-> IF "cache.DeleteMulti" \in F THEN c
                        ELSE MapDrop(c, memcacheKeys),
              ds |-> MapDrop(d, DOMAIN d),
              keys |-> memcacheKeys,
              calls |-> {"ds.GetAll", "ds.DeleteMulti", "cache.DeleteMulti"}]

Purge ==
    \E F \in Faults(PurgeFaults) :
        LET r == purge(cache, ds, now, F)
        IN  /\ nops < MaxOps
            /\ F \subseteq r.calls
            /\ cache' = r.cache
            /\ ds' = r.ds
            /\ disturbed' = disturbed \cup r.keys
                /\ last' = [NoCall EXCEPT !.op = "Purge", !.res = r.res,
                                      !.calls = r.calls]
            /\ nops' = nops + 1
            /\ nfaults' = nfaults + Cardinality(F)
            /\ UNCHANGED <<now, okInc, okSamples, others>>

(***************************************************************************)
(* The clock                                                               *)
(***************************************************************************)
\* nothing handed to the sink, no tick delivered
NoDelivery == [sunk |-> {}, ticks |-> {}, negative |-> {}]

\* no handler instance is running
NoHandlers == <<>>

\* no timing bucket under summary
NoTimings == [gm |-> <<>>, datum |-> [kind |-> "none"]]

\* no getStatConfig call made
NoRegistry == <<>>

Tick ==
    \E step \in TickSteps :
        /\ now + step <= StartTime + MaxTime
        /\ now' = now + step
        /\ cache' = CacheSweep(cache, now + step)
        /\ last' = [NoCall EXCEPT !.op = "Tick"]
        /\ UNCHANGED <<ds, okInc, okSamples, disturbed, nops, nfaults, others>>

Init ==
    /\ now = StartTime
    /\ cache = EmptyMap
    /\ ds = EmptyMap
    /\ last = NoCall
    /\ okInc = EmptyMap
    /\ okSamples = EmptyMap
    /\ disturbed = {}
    /\ nops = 0
    /\ nfaults = 0
    /\ delivery = NoDelivery
    /\ handlers = NoHandlers
    /\ timings = NoTimings
    /\ registry = NoRegistry

Next ==
    \/ IncrementCounter
    \/ IncrementCounterBy
    \/ RecordGauge
    \/ RecordTiming
    \/ UpdateBackend
    \/ Purge
    \/ Tick

Spec == Init /\ [][Next]_vars

(***************************************************************************)
(* Normal operation: no call of the cache, the store or the sink fails,    *)
(* and doFlush is delivered in every period before the clock leaves it     *)
(***************************************************************************)
DeliveryMaxTime == 11
MaxDeliveryOps == 3
DeliverySteps == {3, 5}

\* a slip: the tick flushes the period it arrives in
doFlushPeriod_Current(t) == getStartOfFlushPeriod(t, 0)

\* doFlush: the period flushed is the one before the current one
doFlushPeriod(t) == getStartOfFlushPeriod(t, -1)

NormalIncrementCounterBy ==
    \E id \in CounterIds, delta \in Deltas :
    \E r \in {incrementCounterBy(cache, ds, now, id[1], id[2], delta, {})} :
        /\ nops < MaxDeliveryOps
        /\ cache' = r.cache
        /\ ds' = r.ds
        /\ okInc' = IF r.res = "nil"
                    THEN MapPut(okInc, r.key,
                                (IF r.key \in DOMAIN okInc THEN okInc[r.key] ELSE 0)
                                + delta)
                    ELSE okInc
        /\ delivery' = [delivery EXCEPT
                            !.negative = IF delta < 0 THEN @ \cup {r.key} ELSE @]
        /\ nops' = nops + 1
        /\ UNCHANGED <<now, last, okSamples, disturbed, nfaults,
                       handlers, timings, registry>>

NormalRecord(typ, id, value) ==
    \E r \in {recordGaugeOrTiming(cache, ds, now, typ, id[1], id[2], value,
                                   100, 0, {})} :
        /\ nops < MaxDeliveryOps
        /\ cache' = r.cache
        /\ ds' = r.ds
        /\ okSamples' = IF r.res = "nil"
                        THEN MapPut(okSamples, r.key,
                                    Append(IF r.key \in DOMAIN okSamples
                                           THEN okSamples[r.key] ELSE <<>>,
                                           value))
                        ELSE okSamples
        /\ nops' = nops + 1
        /\ UNCHANGED <<now, last, okInc, disturbed, nfaults, others>>

NormalRecordGauge ==
    \E id \in GaugeIds, value \in Values : NormalRecord(scTypeGauge, id, value)

NormalRecordTiming ==
    \E id \in TimingIds, value \in Values : NormalRecord(scTypeTiming, id, value)

\* doFlush(log, stats, flusher, cfg): a tick of the periodic handler
doFlush ==
    \E r \in {updateBackend(cache, ds, now, doFlushPeriod(now), FALSE, {})} :
        /\ cache' = r.cache
        /\ delivery' = [delivery EXCEPT
                            !.sunk = @ \cup {[ps |-> doFlushPeriod(now), datum |-> x] :
                                                x \in r.batch},
                            !.ticks = @ \cup {getStartOfFlushPeriod(now, 0)}]
        /\ UNCHANGED <<now, ds, last, okInc, okSamples, disturbed, nops, nfaults,
                       handlers, timings, registry>>

\* the clock leaves a period only after the tick of that period
NormalTick ==
    \E step \in DeliverySteps :
        /\ now + step <= StartTime + DeliveryMaxTime
        /\ (getStartOfFlushPeriod(now + step, 0) # getStartOfFlushPeriod(now, 0))
             => getStartOfFlushPeriod(now, 0) \in delivery.ticks
        /\ now' = now + step
        /\ cache' = CacheSweep(cache, now + step)
        /\ UNCHANGED <<ds, last, okInc, okSamples, disturbed, nops, nfaults,
                       others>>

NextDelivery ==
    \/ NormalIncrementCounterBy
    \/ NormalRecordGauge
    \/ NormalRecordTiming
    \/ doFlush
    \/ NormalTick

SpecDelivery == Init /\ [][NextDelivery]_vars

(***************************************************************************)
(* The summary of one timing bucket: samples arrive in the bucket in any   *)
(* order, and the flush loop summarises what the bucket holds              *)
(***************************************************************************)
MaxSamples == 10
TimingValues == {10, 16, 24}

\* the config of the timing whose bucket is summarised
timingConfig == StatConfig(scTypeTiming, "subroutine", "A", StartTime)

\* one more sample in the bucket
TimingSample ==
    \E value \in TimingValues :
        /\ Len(timings.gm) < MaxSamples
        /\ timings' = [gm |-> applySample(scTypeTiming, timings.gm, value),
                       datum |-> [kind |-> "none"]]
        /\ UNCHANGED <<now, cache, ds, last, okInc, okSamples, disturbed, nops,
                       nfaults, delivery, handlers, registry>>

\* the body of the flush loop for the bucket as it is cached
TimingSummary ==
    \E r \in {summarise(timingConfig, gobMarshal("[]float64", timings.gm))} :
        /\ timings.datum.kind = "none"
        /\ timings' = [timings EXCEPT
                          !.datum = IF r.out = "datum" THEN r.datum
                                    ELSE [kind |-> r.out]]
        /\ UNCHANGED <<now, cache, ds, last, okInc, okSamples, disturbed, nops,
                       nfaults, delivery, handlers, registry>>

NextTiming ==
    \/ TimingSample
    \/ TimingSummary

SpecTiming == Init /\ [][NextTiming]_vars

(***************************************************************************)
(* Parallel recorders: handler instances run one recorder call each, one   *)
(* access to the shared cache at a time.  The lookup of the bucket key     *)
(* (getBucketKey) is taken as one step; the accesses to the bucket are     *)
(* separate steps, so another handler can run between a read and a write.  *)
(***************************************************************************)
NumHandlers == 2
Handlers == 1..NumHandlers

IdleHandler == [pc |-> "idle", op |-> "none", typ |-> "", value |-> 0,
                key |-> "", hit |-> FALSE, cached |-> <<>>, res |-> "nil"]

\* whether the next cache access of a handler fails
Failing == {FALSE} \cup (IF nfaults < MaxFaults THEN {TRUE} ELSE {})

Returned(h, res) ==
    [NoCall EXCEPT !.op = handlers[h].op, !.key = handlers[h].key,
                   !.value = handlers[h].value, !.res = res]

\* entry of IncrementCounterBy / recordGaugeOrTiming, up to the bucket key
HandlerCall(h, op, typ, id, value) ==
    \E b \in {getBucketKey(cache, ds, now, typ, id[1], id[2], now, {})} :
        /\ handlers[h].pc = "idle"
        /\ cache' = b.cache
        /\ ds' = b.ds
        /\ handlers' = [handlers EXCEPT ![h] =
                           [IdleHandler EXCEPT
                              !.pc = IF typ = scTypeCounter THEN "Increment"
                                     ELSE "Get",
                              !.op = op, !.typ = typ, !.value = value,
                              !.key = b.key]]
        /\ UNCHANGED <<now, last, okInc, okSamples, disturbed, nops, nfaults,
                       delivery, timings, registry>>

HandlerIncrementCounterBy ==
    \E h \in Handlers, id \in CounterIds, delta \in Deltas :
        HandlerCall(h, "IncrementCounterBy", scTypeCounter, id, delta)

HandlerRecordGauge ==
    \E h \in Handlers, id \in GaugeIds, value \in Values :
        HandlerCall(h, "RecordGauge", scTypeGauge, id, value)

HandlerRecordTiming ==
    \E h \in Handlers, id \in TimingIds, value \in Values :
        HandlerCall(h, "RecordTiming", scTypeTiming, id, value)

\* s.cache.Increment(bucketKey, delta, 0) and the return
HandlerIncrement ==
    \E h \in Handlers, fail \in Failing :
    \E i \in {cacheIncrement(cache, handlers[h].key, handlers[h].value, 0, now)} :
    \E res \in {IF fail \/ i.err THEN "cache.Increment" ELSE "nil"} :
        /\ handlers[h].pc = "Increment"
        /\ cache' = IF res = "nil" THEN i.cache ELSE cache
        /\ handlers' = [handlers EXCEPT ![h].pc = "done", ![h].res = res]
        /\ okInc' = IF res = "nil"
                    THEN MapPut(okInc, handlers[h].key,
                                (IF handlers[h].key \in DOMAIN okInc
                                 THEN okInc[handlers[h].key] ELSE 0)
                                + handlers[h].value)
                    ELSE okInc
        /\ last' = Returned(h, res)
        /\ nfaults' = nfaults + (IF fail THEN 1 ELSE 0)
        /\ UNCHANGED <<now, ds, okSamples, disturbed, nops,
                       delivery, timings, registry>>

\* s.cache.Get(bucketKey): a miss starts from an empty list; a value that
\* does not decode is not noticed and leaves the list empty
HandlerGet ==
    \E h \in Handlers, fail \in Failing :
        /\ handlers[h].pc = "Get"
        /\ handlers' =
              IF fail
              THEN [handlers EXCEPT ![h].pc = "done",
                                    ![h].res = "ErrStatDropped"]
              ELSE [handlers EXCEPT
                      ![h].pc = "Set",
                      ![h].hit = CacheHas(cache, handlers[h].key, now),
                      ![h].cached =
                          IF CacheHas(cache, handlers[h].key, now)
                          THEN gobUnmarshal(cache[handlers[h].key].Value,
                                            "[]float64").v
                          ELSE <<>>]
        /\ last' = IF fail THEN Returned(h, "ErrStatDropped") ELSE last
        /\ nfaults' = nfaults + (IF fail THEN 1 ELSE 0)
        /\ UNCHANGED <<now, cache, ds, okInc, okSamples, disturbed, nops,
                       delivery, timings, registry>>

\* the switch on typ, s.cache.Set(cachedItem) and the return
HandlerSet ==
    \E h \in Handlers, fail \in Failing :
    \E item \in {CacheItem(gobMarshal("[]float64",
                                 applySample(handlers[h].typ,
                                             handlers[h].cached,
                                             handlers[h].value)),
                            IF handlers[h].hit THEN NoExpiration
                            ELSE bucketExpiration, now)} :
    \E res \in {IF fail THEN "ErrStatDropped" ELSE "nil"} :
        /\ handlers[h].pc = "Set"
        /\ cache' = IF fail THEN cache ELSE MapPut(cache, handlers[h].key, item)
        /\ handlers' = [handlers EXCEPT ![h].pc = "done", ![h].res = res]
        /\ okSamples' = IF res = "nil"
                        THEN MapPut(okSamples, handlers[h].key,
                                    Append(IF handlers[h].key \in DOMAIN okSamples
                                           THEN okSamples[handlers[h].key]
                                           ELSE <<>>,
                                           handlers[h].value))
                        ELSE okSamples
        /\ last' = Returned(h, res)
        /\ nfaults' = nfaults + (IF fail THEN 1 ELSE 0)
        /\ UNCHANGED <<now, ds, okInc, disturbed, nops,
                       delivery, timings, registry>>

InitRace ==
    /\ now = StartTime
    /\ cache = EmptyMap
    /\ ds = EmptyMap
    /\ last = NoCall
    /\ okInc = EmptyMap
    /\ okSamples = EmptyMap
    /\ disturbed = {}
    /\ nops = 0
    /\ nfaults = 0
    /\ delivery = NoDelivery
    /\ handlers = [h \in Handlers |-> IdleHandler]
    /\ timings = NoTimings
    /\ registry = NoRegistry

NextRace ==
    \/ HandlerIncrementCounterBy
    \/ HandlerRecordGauge
    \/ HandlerRecordTiming
    \/ HandlerIncrement
    \/ HandlerGet
    \/ HandlerSet

SpecRace == InitRace /\ [][NextRace]_vars

(***************************************************************************)
(* Parallel flushers: handler instances run one non-forced UpdateBackend   *)
(* each, one access to the cache, the store or the sink at a time, while   *)
(* recorder calls run in between.                                          *)
(***************************************************************************)
MaxFlushOps == 2

IdleFlusher == [pc |-> "idle", ps |-> ZeroTime, lpf |-> ZeroTime,
                early |-> FALSE, cfgs |-> <<>>, data |-> {},
                sink |-> "none", lpfWrite |-> "none", res |-> "nil"]

\* the faults of one step: the call site named, or none
FaultOf(fail, site) == IF fail THEN {site} ELSE {}

\* UpdateBackend(periodStart, flusher, flushConfig, false) is called
FlusherCall ==
    \E h \in Handlers, periodStart \in PeriodStarts(now) :
        /\ handlers[h].pc = "idle"
        /\ handlers' = [handlers EXCEPT ![h].pc = "Gate",
                                        ![h].ps = periodStart]
        /\ UNCHANGED <<now, cache, ds, last, okInc, okSamples, disturbed,
                       nops, nfaults, delivery, timings, registry>>

\* s.getLastPeriodFlushed() and the refusal; early records that no flusher
\* had yet come to its write of ss-lpf when this one read it
FlusherGate ==
    \E h \in Handlers, fail \in Failing :
        /\ handlers[h].pc = "Gate"
        /\ \E lastFlushedPeriod \in
              {getLastPeriodFlushed(cache, now, FaultOf(fail, "lpf.Get"))} :
            handlers' =
              [handlers EXCEPT
                 ![h].lpf = lastFlushedPeriod,
                 ![h].early = \A g \in Handlers : handlers[g].lpfWrite = "none",
                 ![h].pc = IF tooSoon(handlers[h].ps, lastFlushedPeriod, FALSE)
                           THEN "done" ELSE "Query",
                 ![h].res = IF tooSoon(handlers[h].ps, lastFlushedPeriod, FALSE)
                            THEN "ErrStatFlushTooSoon" ELSE "nil"]
        /\ nfaults' = nfaults + (IF fail THEN 1 ELSE 0)
        /\ UNCHANGED <<now, cache, ds, last, okInc, okSamples, disturbed,
                       nops, delivery, timings, registry>>

\* s.getActiveConfigs(periodStart, 0) and the return on no config
FlusherQuery ==
    \E h \in Handlers, fail \in Failing :
        /\ handlers[h].pc = "Query"
        /\ \E a \in {getActiveConfigs(ds, handlers[h].ps, 0, fail, {})} :
            handlers' =
              [handlers EXCEPT
                 ![h].cfgs = a.cfgs,
                 ![h].pc = IF a.err # "nil" \/ DOMAIN a.cfgs = {}
                           THEN "done" ELSE "GetMulti",
                 ![h].res = a.err]
        /\ nfaults' = nfaults + (IF fail THEN 1 ELSE 0)
        /\ UNCHANGED <<now, cache, ds, last, okInc, okSamples, disturbed,
                       nops, delivery, timings, registry>>

\* the buckets of cfgs the cache holds, summarised
batchOf(c, t, cfgs) ==
    {summarise(cfgs[k], c[k].Value) :
        k \in {x \in DOMAIN cfgs : CacheHas(c, x, t)}}

\* s.cache.GetMulti(bucketKeys) and the loop over the items; an error of
\* GetMulti and an empty batch both return nil
FlusherGetMulti ==
    \E h \in Handlers, fail \in Failing :
        /\ handlers[h].pc = "GetMulti"
        /\ \E sums \in {IF fail THEN {}
                         ELSE batchOf(cache, now, handlers[h].cfgs)} :
           \E data \in {{x.datum : x \in {y \in sums : y.out = "datum"}}} :
            handlers' =
              [handlers EXCEPT
                 ![h].data = data,
                 ![h].pc = IF (\E x \in sums : x.out = "panic") \/ data = {}
                           THEN "done" ELSE "Flush",
                 ![h].res = IF \E x \in sums : x.out = "panic"
                            THEN "panic" ELSE "nil"]
        /\ nfaults' = nfaults + (IF fail THEN 1 ELSE 0)
        /\ UNCHANGED <<now, cache, ds, last, okInc, okSamples, disturbed,
                       nops, delivery, timings, registry>>

\* flusher.Flush(data, flushConfig) and the return of its error
FlusherFlush ==
    \E h \in Handlers, fail \in Failing :
        /\ handlers[h].pc = "Flush"
        /\ handlers' =
              [handlers EXCEPT
                 ![h].sink = IF fail THEN "err" ELSE "ok",
                 ![h].pc = IF fail THEN "done" ELSE "Set",
                 ![h].res = IF fail THEN "sink.Flush" ELSE "nil"]
        /\ nfaults' = nfaults + (IF fail THEN 1 ELSE 0)
        /\ UNCHANGED <<now, cache, ds, last, okInc, okSamples, disturbed,
                       nops, delivery, timings, registry>>

\* s.updateLastPeriodFlushed(periodStart), its error dropped, and return nil
FlusherSet ==
    \E h \in Handlers, fail \in Failing :
        /\ handlers[h].pc = "Set"
        /\ cache' = updateLastPeriodFlushed(cache, now, handlers[h].ps,
                                            FaultOf(fail, "lpf.Set"))
        /\ handlers' =
              [handlers EXCEPT
                 ![h].lpfWrite = IF fail THEN "failed" ELSE "ok",
                 ![h].pc = "done"]
        /\ nfaults' = nfaults + (IF fail THEN 1 ELSE 0)
        /\ UNCHANGED <<now, ds, last, okInc, okSamples, disturbed,
                       nops, delivery, timings, registry>>

\* a recorder call of another handler, run as a whole
FlushRaceRecord ==
    /\ nops < MaxFlushOps
    /\ \/ NormalIncrementCounterBy
       \/ NormalRecordGauge
       \/ NormalRecordTiming

InitFlushRace ==
    /\ now = StartTime
    /\ cache = EmptyMap
    /\ ds = EmptyMap
    /\ last = NoCall
    /\ okInc = EmptyMap
    /\ okSamples = EmptyMap
    /\ disturbed = {}
    /\ nops = 0
    /\ nfaults = 0
    /\ delivery = NoDelivery
    /\ handlers = [h \in Handlers |-> IdleFlusher]
    /\ timings = NoTimings
    /\ registry = NoRegistry

NextFlushRace ==
    \/ FlusherCall
    \/ FlusherGate
    \/ FlusherQuery
    \/ FlusherGetMulti
    \/ FlusherFlush
    \/ FlusherSet
    \/ FlushRaceRecord
    \/ Tick

SpecFlushRace == InitFlushRace /\ [][NextFlushRace]_vars

(***************************************************************************)
(* The config registry over days: getStatConfig is called as the recorder  *)
(* calls call it, hours apart; registry keeps the last two calls.          *)
(***************************************************************************)
RegistryMaxTime == 4320
MaxRegistryOps == 4
RegistrySteps == {720, 1500}

ConfigIds ==
    {<<scTypeCounter, id[1], id[2]>> : id \in CounterIds}
        \cup {<<scTypeGauge, id[1], id[2]>> : id \in GaugeIds}

\* s.getStatConfig(typ, name, source) at the present instant
GetStatConfig ==
    \E id \in ConfigIds :
    \E F \in {{}} \cup (IF nfaults < MaxFaults
                        THEN {{f} : f \in ConfigFaults} ELSE {}) :
    \E r \in {getStatConfig(cache, ds, now, id[1], id[2], id[3], F)} :
        /\ nops < MaxRegistryOps
        /\ F \subseteq r.calls
        /\ cache' = r.cache
        /\ ds' = r.ds
        /\ registry' =
              <<[id |-> id, at |-> now, F |-> F, err |-> r.err, sc |-> r.sc,
                 calls |-> r.calls,
                 cacheBefore |-> cache, dsBefore |-> ds,
                 cacheAfter |-> r.cache, dsAfter |-> r.ds]>>
              \o (IF registry = <<>> THEN <<>> ELSE <<registry[1]>>)
        /\ nops' = nops + 1
        /\ nfaults' = nfaults + Cardinality(F)
        /\ UNCHANGED <<now, last, okInc, okSamples, disturbed,
                       delivery, handlers, timings>>

\* hours pass; the cache drops what has expired
RegistryTick ==
    \E step \in RegistrySteps :
        /\ now + step <= StartTime + RegistryMaxTime
        /\ now' = now + step
        /\ cache' = CacheSweep(cache, now + step)
        /\ UNCHANGED <<ds, last, okInc, okSamples, disturbed, nops, nfaults,
                       delivery, handlers, timings, registry>>

NextRegistry ==
    \/ GetStatConfig
    \/ RegistryTick

SpecRegistry == Init /\ [][NextRegistry]_vars

(***************************************************************************)
(* Flush periods: getStartOfFlushPeriod and BucketKey applied to instants  *)
(* around the start of the clock and around the Unix epoch.                *)
(***************************************************************************)
PeriodSpan == 12
PeriodTimes ==
    (StartTime - PeriodSpan .. StartTime + PeriodSpan)
        \cup (-PeriodSpan .. PeriodSpan)
PeriodOffsets == {-2, -1, 0, 1}

\* getStartOfFlushPeriod(at, offset), again on its own result, and the
\* bucket keys of one metric at the instants at and other
PeriodStart ==
    \E other \in PeriodTimes, offset \in PeriodOffsets, id \in ConfigIds :
        /\ registry = NoRegistry
        /\ registry' =
              [at |-> now, other |-> other, offset |-> offset,
               start |-> getStartOfFlushPeriod(now, offset),
               again |-> getStartOfFlushPeriod(
                             getStartOfFlushPeriod(now, offset), 0),
               keyAt |-> BucketKey(StatConfig(id[1], id[2], id[3], ZeroTime),
                                   now, 0),
               keyOther |-> BucketKey(StatConfig(id[1], id[2], id[3], ZeroTime),
                                      other, 0)]
        /\ UNCHANGED <<now, cache, ds, last, okInc, okSamples, disturbed,
                       nops, nfaults, delivery, handlers, timings>>

InitPeriod ==
    /\ now \in PeriodTimes
    /\ cache = EmptyMap
    /\ ds = EmptyMap
    /\ last = NoCall
    /\ okInc = EmptyMap
    /\ okSamples = EmptyMap
    /\ disturbed = {}
    /\ nops = 0
    /\ nfaults = 0
    /\ delivery = NoDelivery
    /\ handlers = NoHandlers
    /\ timings = NoTimings
    /\ registry = NoRegistry

NextPeriod == PeriodStart

SpecPeriod == InitPeriod /\ [][NextPeriod]_vars

(***************************************************************************)
(* The Librato flusher: LibratoStatsFlusher.Flush applied to batches in    *)
(* any order and to any answer of the HTTP client, at the end of an        *)
(* UpdateBackend for the previous period.                                  *)
(***************************************************************************)
MaxBatch == 3

\* fmt.Sprintf(verb, v)
Sprintf(verb, v) == [fmt |-> verb, v |-> v]

\* getPostKey(typ, field, i): fmt.Sprintf("%s[%d][%s]", typ, i, field)
getPostKey(typ, field, i) == typ \o "[" \o ToString(i) \o "][" \o field \o "]"

\* url.Values.Add(key, value) for each <<key, value>> of pairs, in order
RECURSIVE postdataAdd(_, _)
postdataAdd(postdata, pairs) ==
    IF pairs = <<>> THEN postdata
    ELSE postdataAdd(
             MapPut(postdata, Head(pairs)[1],
                    Append(IF Head(pairs)[1] \in DOMAIN postdata
                           THEN postdata[Head(pairs)[1]] ELSE <<>>,
                           Head(pairs)[2])),
             Tail(pairs))

\* a slip: the source is posted even when it is empty
sourceField_Always(typ, source, i) == <<<<getPostKey(typ, "source", i), source>>>>

\* if sd.Source != "" { postdata.Add(getPostKey(typ, "source", i), sd.Source) }
sourceField(typ, source, i) ==
    IF source # "" THEN <<<<getPostKey(typ, "source", i), source>>>> ELSE <<>>

\* the fields one record of the batch adds, given the two running counts
libratoFields(d, gaugeCount, counterCount) ==
    IF d.kind = "StatDataCounter"
    THEN <<<<getPostKey("counters", "name", counterCount), d.StatConfig.Name>>,
           <<getPostKey("counters", "value", counterCount),
             Sprintf("%d", d.Count)>>>>
         \o sourceField("counters", d.StatConfig.Source, counterCount)
    ELSE IF d.kind = "StatDataGauge"
    THEN <<<<getPostKey("gauges", "name", gaugeCount), d.StatConfig.Name>>,
           <<getPostKey("gauges", "value", gaugeCount),
             Sprintf("%f", d.Value)>>>>
         \o sourceField("gauges", d.StatConfig.Source, gaugeCount)
    ELSE IF d.kind = "StatDataTiming"
    THEN <<<<getPostKey("gauges", "name", gaugeCount), d.StatConfig.Name>>,
           <<getPostKey("gauges", "count", gaugeCount), Sprintf("%d", d.Count)>>,
           <<getPostKey("gauges", "min", gaugeCount), Sprintf("%f", d.Min)>>,
           <<getPostKey("gauges", "max", gaugeCount), Sprintf("%f", d.Max)>>,
           <<getPostKey("gauges", "sum", gaugeCount), Sprintf("%f", d.Sum)>>,
           <<getPostKey("gauges", "sum_squares", gaugeCount),
             Sprintf("%f", d.SumSquares)>>>>
         \o sourceField("gauges", d.StatConfig.Source, gaugeCount)
         \o <<<<getPostKey("gauges", "name", gaugeCount + 1),
                d.StatConfig.Name \o ".90">>,
              <<getPostKey("gauges", "count", gaugeCount + 1),
                Sprintf("%d", d.NinthDecileCount)>>,
              <<getPostKey("gauges", "max", gaugeCount + 1),
                Sprintf("%f", d.NinthDecileValue)>>,
              <<getPostKey("gauges", "sum", gaugeCount + 1),
                Sprintf("%f", d.NinthDecileSum)>>>>
         \o sourceField("gauges", d.StatConfig.Source, gaugeCount + 1)
    ELSE <<>>

\* the loop over data: the postdata after the records from i on
RECURSIVE libratoPostdata(_, _, _, _, _)
libratoPostdata(data, i, gaugeCount, counterCount, postdata) ==
    IF i > Len(data) THEN postdata
    ELSE libratoPostdata(
             data, i + 1,
             gaugeCount + (IF data[i].kind = "StatDataGauge" THEN 1
                           ELSE IF data[i].kind = "StatDataTiming" THEN 2
                           ELSE 0),
             counterCount + (IF data[i].kind = "StatDataCounter" THEN 1 ELSE 0),
             postdataAdd(postdata,
                         libratoFields(data[i], gaugeCount, counterCount)))

\* a slip: a status other than 200 and 204 is returned as an error
libratoResult_StatusChecked(response) ==
    IF response.kind = "error" THEN "sink.Flush"
    ELSE IF response.StatusCode \notin {200, 204} THEN "sink.Flush"
    ELSE "nil"

\* what Flush returns for the answer of lf.getHttpClient().Do(req)
libratoResult(response) ==
    IF response.kind = "error" THEN "sink.Flush" ELSE "nil"

\* the answers of the HTTP client: an error of the request itself, or a
\* response with a status code and a body that can or cannot be read
Responses ==
    {[kind |-> "error"]}
        \cup [kind : {"response"}, StatusCode : {200, 204, 302, 400, 401, 500},
              bodyRead : BOOLEAN]

\* the records a batch is drawn from
LibratoData ==
    {[kind |-> "StatDataCounter",
      StatConfig |-> StatConfig(scTypeCounter, "foo", "a", StartTime),
      Count |-> 1],
     [kind |-> "StatDataCounter",
      StatConfig |-> StatConfig(scTypeCounter, "bar", "", StartTime),
      Count |-> 12],
     [kind |-> "StatDataGauge",
      StatConfig |-> StatConfig(scTypeGauge, "temperature", "raleigh", StartTime),
      Value |-> 10],
     [kind |-> "StatDataGauge",
      StatConfig |-> StatConfig(scTypeGauge, "load", "", StartTime),
      Value |-> 16],
     timingDatum(StatConfig(scTypeTiming, "subroutine", "A", StartTime),
                 <<16, 10>>),
     timingDatum(StatConfig(scTypeTiming, "wait", "", StartTime), <<24>>)}

Batches == UNION {[1..n -> LibratoData] : n \in 1..MaxBatch}

\* the end of UpdateBackend(getStartOfFlushPeriod(now, -1), flusher, cfg,
\* false) with the Librato flusher: Flush(data, cfg) and, when it returned
\* nil, updateLastPeriodFlushed
LibratoFlush ==
    \E r \in {flushBatch(cache, now, doFlushPeriod(now),
                         {registry.data[i] : i \in 1..Len(registry.data)},
                         IF libratoResult(registry.response) = "nil"
                         THEN {} ELSE {"sink.Flush"},
                         {}, "ok")} :
        /\ registry.state = "called"
        /\ cache' = r.cache
        /\ registry' =
              [registry EXCEPT
                 !.state = "returned",
                 !.postdata = libratoPostdata(registry.data, 1, 0, 0, EmptyMap),
                 !.flush = libratoResult(registry.response),
                 !.res = r.res]
        /\ UNCHANGED <<now, ds, last, okInc, okSamples, disturbed,
                       nops, nfaults, delivery, handlers, timings>>

InitLibrato ==
    /\ now = StartTime
    /\ cache = EmptyMap
    /\ ds = EmptyMap
    /\ last = NoCall
    /\ okInc = EmptyMap
    /\ okSamples = EmptyMap
    /\ disturbed = {}
    /\ nops = 0
    /\ nfaults = 0
    /\ delivery = NoDelivery
    /\ handlers = NoHandlers
    /\ timings = NoTimings
    /\ registry \in [state : {"called"}, data : Batches, response : Responses,
                      postdata : {EmptyMap}, flush : {"none"}, res : {"none"}]

NextLibrato == LibratoFlush

SpecLibrato == InitLibrato /\ [][NextLibrato]_vars

(***************************************************************************)
(* Forced flushes of one period, repeated while the clock runs on past the *)
(* expiration of its buckets                                               *)
(***************************************************************************)
ReflushMaxTime == 14

\* the period that is flushed again and again
ReflushPeriod == getStartOfFlushPeriod(StartTime, 0)

\* no forced flush of the period has been made yet
NoReflush ==
    [batch |-> {}, sink |-> "none", nops |-> -1, keys |-> {}, again |-> FALSE]

\* the flush made now follows one that called the flusher, with no public
\* call since and with the same buckets cached
Again == /\ registry.sink # "none"
         /\ registry.nops = nops
         /\ registry.keys = DOMAIN cache \ {lpfKey}

\* UpdateBackend(ReflushPeriod, flusher, cfg, true) in which no call fails
Reflush ==
    \E r \in {updateBackend(cache, ds, now, ReflushPeriod, TRUE, {})} :
        /\ cache' = r.cache
        /\ last' = [NoCall EXCEPT !.op = "UpdateBackend",
                                  !.ps = ReflushPeriod, !.force = TRUE,
                                  !.res = r.res, !.sink = r.sink,
                                  !.lpfRead = r.lpfRead,
                                  !.lpfWrite = r.lpfWrite,
                                  !.lpfBefore = getLastPeriodFlushed(cache, now, {}),
                                  !.calls = r.calls, !.batch = r.batch,
                                  !.before = Brief(last)]
        /\ registry' = [batch |-> r.batch, sink |-> r.sink, nops |-> nops,
                        keys |-> DOMAIN cache \ {lpfKey}, again |-> Again]
        /\ UNCHANGED <<now, ds, okInc, okSamples, disturbed, nops, nfaults,
                       delivery, handlers, timings>>

ReflushTick ==
    \E step \in TickSteps :
        /\ now + step <= StartTime + ReflushMaxTime
        /\ now' = now + step
        /\ cache' = CacheSweep(cache, now + step)
        /\ last' = [NoCall EXCEPT !.op = "Tick"]
        /\ UNCHANGED <<ds, okInc, okSamples, disturbed, nops, nfaults, others>>

InitReflush ==
    /\ now = StartTime
    /\ cache = EmptyMap
    /\ ds = EmptyMap
    /\ last = NoCall
    /\ okInc = EmptyMap
    /\ okSamples = EmptyMap
    /\ disturbed = {}
    /\ nops = 0
    /\ nfaults = 0
    /\ delivery = NoDelivery
    /\ handlers = NoHandlers
    /\ timings = NoTimings
    /\ registry = NoReflush

NextReflush ==
    \/ IncrementCounter
    \/ RecordGauge
    \/ Reflush
    \/ ReflushTick

SpecReflush == InitReflush /\ [][NextReflush]_vars

(***************************************************************************)
(* Bad data in the cache: parallel recorders and flushes, while bytes that *)
(* are neither a gob list nor a decimal number turn up under bucket keys   *)
(***************************************************************************)
\* bytes that gob does not decode and ParseUint does not parse
BadData == [enc |-> "junk", typ |-> "", v |-> 0]

\* the bucket keys the handlers record under
HandlerKeys == {handlers[h].key : h \in Handlers} \ {""}

\* the value of a cached bucket is replaced by bad data, once per key
Garble ==
    \E k \in HandlerKeys :
        /\ CacheHas(cache, k, now)
        /\ k \notin disturbed
        /\ cache' = [cache EXCEPT ![k].Value = BadData]
        /\ disturbed' = disturbed \cup {k}
        /\ last' = [NoCall EXCEPT !.op = "Garble", !.key = k]
        /\ UNCHANGED <<now, ds, okInc, okSamples, nops, nfaults, others>>

NextBadData ==
    \/ HandlerIncrementCounterBy
    \/ HandlerRecordGauge
    \/ HandlerRecordTiming
    \/ HandlerIncrement
    \/ HandlerGet
    \/ HandlerSet
    \/ UpdateBackend
    \/ Garble

SpecBadData == InitRace /\ [][NextBadData]_vars

(***************************************************************************)
(* The compare-and-swap write path of recordGaugeOrTiming (statstash.go):  *)
(* handler instances run one RecordTiming call each on one bucket, one     *)
(* cache access at a time, while the cache may drop the bucket.  A sample   *)
(* is a Measurement; each handler records a value of its own, so the       *)
(* samples of the calls can be told apart.                                 *)
(***************************************************************************)
\* for tries := 0; tries < 5; tries++
maxTries == 5

\* number of times the cache drops the bucket in a behaviour
MaxEvictions == 1

IdleCas == [pc |-> "idle", op |-> "none", typ |-> "", value |-> 0,
            key |-> "", tries |-> 0, cached |-> <<>>, ver |-> 0, res |-> "none"]

\* the compare-and-swap id of the bucket item: every write gives a new one
NoCas == [ver |-> 0]

CasReturned(h, res) ==
    [NoCall EXCEPT !.op = handlers[h].op, !.key = handlers[h].key,
                   !.value = handlers[h].value, !.res = res]

\* entry of recordGaugeOrTiming, up to the bucket key
CasCall ==
    \E h \in Handlers, id \in TimingIds :
    \E b \in {getBucketKey(cache, ds, now, scTypeTiming, id[1], id[2], now, {})} :
        /\ handlers[h].pc = "idle"
        /\ cache' = b.cache
        /\ ds' = b.ds
        /\ handlers' = [handlers EXCEPT ![h] =
                           [IdleCas EXCEPT !.pc = "Get", !.op = "RecordTiming",
                                           !.typ = scTypeTiming, !.value = h,
                                           !.key = b.key]]
        /\ UNCHANGED <<now, last, okInc, okSamples, disturbed, nops, nfaults,
                       delivery, timings, registry>>

\* the loop test, memcache.Gob.Get(s.c, bucketKey, &cached) and the switch
\* on typ
CasGet ==
    \E h \in Handlers, fail \in Failing :
    \E hit \in {CacheHas(cache, handlers[h].key, now)} :
    \E res \in {IF handlers[h].tries >= maxTries THEN "too many failures"
                 ELSE IF fail THEN "cache.Get" ELSE "nil"} :
        /\ handlers[h].pc = "Get"
        /\ handlers' =
              IF res # "nil"
              THEN [handlers EXCEPT ![h].pc = "done", ![h].res = res]
              ELSE [handlers EXCEPT
                      ![h].pc = IF hit THEN "CompareAndSwap" ELSE "AddNew",
                      ![h].ver = IF hit THEN registry.ver ELSE 0,
                      ![h].cached =
                          applySample(handlers[h].typ,
                                      IF hit
                                      THEN gobUnmarshal(cache[handlers[h].key].Value,
                                                        "[]float64").v
                                      ELSE <<>>,
                                      handlers[h].value)]
        /\ last' = IF res # "nil" THEN CasReturned(h, res) ELSE last
        /\ nfaults' = nfaults + (IF fail /\ res = "cache.Get" THEN 1 ELSE 0)
        /\ UNCHANGED <<now, cache, ds, okInc, okSamples, disturbed, nops,
                       delivery, timings, registry>>

\* memcache.Gob.CompareAndSwap(s.c, cachedItem)
CasCompareAndSwap ==
    \E h \in Handlers, fail \in Failing :
    \E res \in {IF fail THEN "cache.CompareAndSwap"
                 ELSE IF ~CacheHas(cache, handlers[h].key, now)
                 THEN "ErrNotStored"
                 ELSE IF registry.ver # handlers[h].ver THEN "ErrCASConflict"
                 ELSE "nil"} :
        /\ handlers[h].pc = "CompareAndSwap"
        /\ cache' = IF res = "nil"
                    THEN [cache EXCEPT ![handlers[h].key].Value =
                             gobMarshal("[]float64", handlers[h].cached)]
                    ELSE cache
        /\ registry' = IF res = "nil" THEN [ver |-> registry.ver + 1]
                       ELSE registry
        /\ handlers' =
              IF res = "ErrCASConflict"
              THEN [handlers EXCEPT ![h].pc = "Get",
                                    ![h].tries = handlers[h].tries + 1]
              ELSE IF res = "ErrNotStored"
              THEN [handlers EXCEPT ![h].pc = "AddOld"]
              ELSE [handlers EXCEPT ![h].pc = "done", ![h].res = res]
        /\ okSamples' = IF res = "nil"
                        THEN MapPut(okSamples, handlers[h].key,
                                    Append(IF handlers[h].key \in DOMAIN okSamples
                                           THEN okSamples[handlers[h].key]
                                           ELSE <<>>,
                                           handlers[h].value))
                        ELSE okSamples
        /\ last' = IF res \in {"ErrCASConflict", "ErrNotStored"} THEN last
                   ELSE CasReturned(h, res)
        /\ nfaults' = nfaults + (IF fail THEN 1 ELSE 0)
        /\ UNCHANGED <<now, ds, okInc, disturbed, nops, delivery, timings>>

\* after ErrNotStored: memcache.Gob.Add(s.c, cachedItem); only ErrNotStored
\* returns (nil), every other outcome goes on to the new item
CasAddOld ==
    \E h \in Handlers, fail \in Failing :
    \E res \in {IF fail THEN "cache.Add"
                 ELSE IF CacheHas(cache, handlers[h].key, now)
                 THEN "ErrNotStored" ELSE "nil"} :
        /\ handlers[h].pc = "AddOld"
        /\ cache' = IF res = "nil"
                    THEN MapPut(cache, handlers[h].key,
                                CacheItem(gobMarshal("[]float64",
                                                     handlers[h].cached),
                                          NoExpiration, now))
                    ELSE cache
        /\ registry' = IF res = "nil" THEN [ver |-> registry.ver + 1]
                       ELSE registry
        /\ handlers' =
              IF res = "ErrNotStored"
              THEN [handlers EXCEPT ![h].pc = "done", ![h].res = "nil"]
              ELSE [handlers EXCEPT ![h].pc = "AddNew"]
        /\ okSamples' = IF res = "ErrNotStored"
                        THEN MapPut(okSamples, handlers[h].key,
                                    Append(IF handlers[h].key \in DOMAIN okSamples
                                           THEN okSamples[handlers[h].key]
                                           ELSE <<>>,
                                           handlers[h].value))
                        ELSE okSamples
        /\ last' = IF res = "ErrNotStored" THEN CasReturned(h, "nil") ELSE last
        /\ nfaults' = nfaults + (IF fail THEN 1 ELSE 0)
        /\ UNCHANGED <<now, ds, okInc, disturbed, nops, delivery, timings>>

\* memcache.Gob.Add(s.c, newItem)
CasAddNew ==
    \E h \in Handlers, fail \in Failing :
    \E res \in {IF fail THEN "cache.Add"
                 ELSE IF CacheHas(cache, handlers[h].key, now)
                 THEN "ErrNotStored" ELSE "nil"} :
        /\ handlers[h].pc = "AddNew"
        /\ cache' = IF res = "nil"
                    THEN MapPut(cache, handlers[h].key,
                                CacheItem(gobMarshal("[]float64",
                                                     handlers[h].cached),
                                          bucketExpiration, now))
                    ELSE cache
        /\ registry' = IF res = "nil" THEN [ver |-> registry.ver + 1]
                       ELSE registry
        /\ handlers' =
              IF res = "ErrNotStored"
              THEN [handlers EXCEPT ![h].pc = "Get",
                                    ![h].tries = handlers[h].tries + 1]
              ELSE [handlers EXCEPT ![h].pc = "done", ![h].res = res]
        /\ okSamples' = IF res = "nil"
                        THEN MapPut(okSamples, handlers[h].key,
                                    Append(IF handlers[h].key \in DOMAIN okSamples
                                           THEN okSamples[handlers[h].key]
                                           ELSE <<>>,
                                           handlers[h].value))
                        ELSE okSamples
        /\ last' = IF res = "ErrNotStored" THEN last ELSE CasReturned(h, res)
        /\ nfaults' = nfaults + (IF fail THEN 1 ELSE 0)
        /\ UNCHANGED <<now, ds, okInc, disturbed, nops, delivery, timings>>

\* the cache drops the bucket (eviction, expiry)
CasEvict ==
    \E k \in HandlerKeys :
        /\ nops < MaxEvictions
        /\ CacheHas(cache, k, now)
        /\ cache' = MapDrop(cache, {k})
        /\ disturbed' = disturbed \cup {k}
        /\ nops' = nops + 1
        /\ UNCHANGED <<now, ds, last, okInc, okSamples, nfaults, others>>

InitCas ==
    /\ now = StartTime
    /\ cache = EmptyMap
    /\ ds = EmptyMap
    /\ last = NoCall
    /\ okInc = EmptyMap
    /\ okSamples = EmptyMap
    /\ disturbed = {}
    /\ nops = 0
    /\ nfaults = 0
    /\ delivery = NoDelivery
    /\ handlers = [h \in Handlers |-> IdleCas]
    /\ timings = NoTimings
    /\ registry = NoCas

NextCas ==
    \/ CasCall
    \/ CasGet
    \/ CasCompareAndSwap
    \/ CasAddOld
    \/ CasAddNew
    \/ CasEvict

SpecCas == InitCas /\ [][NextCas]_vars

(***************************************************************************)
(* Keys: two different metrics, with names and sources that may contain    *)
(* the separator, are recorded one after the other                         *)
(***************************************************************************)
KeyNames == {"a", "a-b", "foo"}
KeySources == {"", "c", "b-c"}

\* the metrics (type, name, source) the recordings are drawn from
KeyTriples == {scTypeCounter, scTypeGauge, scTypeTiming} \X KeyNames \X KeySources

\* the next of the two recordings: IncrementCounter, RecordGauge or
\* RecordTiming of the metric, in which no call fails
KeysRecord ==
    \E m \in {IF registry.todo = <<>> THEN <<"", "", "">>
               ELSE Head(registry.todo)} :
    \E r \in {IF m[1] = scTypeCounter
               THEN incrementCounterBy(cache, ds, now, m[2], m[3], 1, {})
               ELSE IF m[1] = ""
               THEN [res |-> "nil", key |-> "", cache |-> cache, ds |-> ds,
                     calls |-> {}]
               ELSE recordGaugeOrTiming(cache, ds, now, m[1], m[2], m[3],
                                        10, 100, 0, {})} :
        /\ registry.todo # <<>>
        /\ cache' = r.cache
        /\ ds' = r.ds
        /\ registry' = [todo |-> Tail(registry.todo),
                        done |-> Append(registry.done,
                                        [metric |-> m, res |-> r.res,
                                         key |-> r.key])]
        /\ last' = [NoCall EXCEPT !.op = IF m[1] = scTypeCounter
                                         THEN "IncrementCounter"
                                         ELSE IF m[1] = scTypeGauge
                                         THEN "RecordGauge" ELSE "RecordTiming",
                                  !.key = r.key, !.res = r.res,
                                  !.calls = r.calls]
        /\ UNCHANGED <<now, okInc, okSamples, disturbed, nops, nfaults,
                       delivery, handlers, timings>>

InitKeys ==
    /\ now = StartTime
    /\ cache = EmptyMap
    /\ ds = EmptyMap
    /\ last = NoCall
    /\ okInc = EmptyMap
    /\ okSamples = EmptyMap
    /\ disturbed = {}
    /\ nops = 0
    /\ nfaults = 0
    /\ delivery = NoDelivery
    /\ handlers = NoHandlers
    /\ timings = NoTimings
    /\ registry \in {[todo |-> <<p[1], p[2]>>, done |-> <<>>] :
                        p \in {q \in KeyTriples \X KeyTriples : q[1] # q[2]}}

NextKeys == KeysRecord

SpecKeys == InitKeys /\ [][NextKeys]_vars

(***************************************************************************)
(* A metric recorded day after day, with the getStatConfig that writes the *)
(* store only for a new config or one read 48 hours ago or more            *)
(***************************************************************************)
DormantMaxTime == 4320
MaxDormantOps == 3
DormantSteps == {1380, 1500}

\* getStatConfig(typ, name, source) with updateNeeded: the config, the
\* error, and the cache and store it leaves
getStatConfigUpdateNeeded(c, d, t, typ, name, source, F) ==
    LET ck == getStatConfigMemcacheKey(typ, name, source)
        k  == getStatConfigKeyName(typ, name, source)
    IN  IF CacheHas(c, ck, t) /\ "conf.Get" \notin F
             /\ ~gobUnmarshal(c[ck].Value, "StatConfig").err
        THEN [err |-> "nil", sc |-> gobUnmarshal(c[ck].Value, "StatConfig").v,
              cache |-> c, ds |-> d, calls |-> {"conf.Get"}]
        ELSE IF "ds.Get" \in F
        THEN [err |-> "ds.Get", sc |-> StatConfig("", "", "", ZeroTime),
              cache |-> c, ds |-> d, calls |-> {"conf.Get", "ds.Get"}]
        ELSE LET found == k \in DOMAIN d
                 updateNeeded ==
                     \* now.Sub(sc.LastRead) >= 2*24*time.Hour, in minutes
                     IF found THEN Sub(t, d[k].LastRead) >= 2 * 24 * 60
                     ELSE TRUE
                 sc == IF ~found THEN StatConfig(typ, name, source, t)
                       ELSE IF updateNeeded THEN [d[k] EXCEPT !.LastRead = t]
                       ELSE d[k]
                 putOk == ~updateNeeded \/ "ds.Put" \notin F
                 d2 == IF updateNeeded /\ putOk THEN MapPut(d, k, sc) ELSE d
                 \* memcache.Gob.Add stores only when the key is absent
                 c2 == IF putOk /\ "conf.Add" \notin F /\ ~CacheHas(c, ck, t)
                       THEN MapPut(c, ck,
                                CacheItem(gobMarshal("StatConfig", sc),
                                          configExpiration, t))
                       ELSE c
             IN  [err |-> "nil", sc |-> sc, cache |-> c2, ds |-> d2,
                  calls |-> {"conf.Get", "ds.Get"}
                            \cup (IF updateNeeded THEN {"ds.Put"} ELSE {})
                            \cup (IF putOk THEN {"conf.Add"} ELSE {})]

\* IncrementCounter(name, source): getBucketKey, memcache.Increment
DormantRecord ==
    \E id \in CounterIds :
    \E F \in {{}} \cup (IF nfaults < MaxFaults
                        THEN {{f} : f \in CounterFaults} ELSE {}) :
    \E r \in {getStatConfigUpdateNeeded(cache, ds, now, scTypeCounter,
                                        id[1], id[2], F)} :
    \E i \in {cacheIncrement(r.cache, BucketKey(r.sc, now, 0), 1, 0, now)} :
    \E res \in {IF r.err # "nil" THEN r.err
                 ELSE IF "cache.Increment" \in F \/ i.err
                 THEN "cache.Increment" ELSE "nil"} :
        /\ nops < MaxDormantOps
        /\ F \subseteq r.calls \cup (IF r.err = "nil" THEN {"cache.Increment"}
                                      ELSE {})
        /\ cache' = IF res = "nil" THEN i.cache ELSE r.cache
        /\ ds' = r.ds
        /\ last' = [NoCall EXCEPT
                      !.op = "IncrementCounter",
                      !.key = IF r.err = "nil" THEN BucketKey(r.sc, now, 0)
                              ELSE "",
                      !.value = 1, !.res = res,
                      !.calls = r.calls \cup (IF r.err = "nil"
                                              THEN {"cache.Increment"} ELSE {})]
        /\ nops' = nops + 1
        /\ nfaults' = nfaults + Cardinality(F)
        /\ UNCHANGED <<now, okInc, okSamples, disturbed, others>>

\* hours pass; the cache drops what has expired
DormantTick ==
    \E step \in DormantSteps :
        /\ now + step <= StartTime + DormantMaxTime
        /\ now' = now + step
        /\ cache' = CacheSweep(cache, now + step)
        /\ last' = [NoCall EXCEPT !.op = "Tick"]
        /\ UNCHANGED <<ds, okInc, okSamples, disturbed, nops, nfaults, others>>

NextDormant ==
    \/ DormantRecord
    \/ DormantTick

SpecDormant == Init /\ [][NextDormant]_vars

(***************************************************************************)
(* What the properties read                                                *)
(***************************************************************************)
\* the bucket key of a metric in the period of the present instant
CurrentKey(typ, id) ==
    BucketKey(StatConfig(typ, id[1], id[2], ZeroTime), now, 0)

\* the instant ss-lpf holds, the zero instant when it is absent
StoredLpf(c, t) == getLastPeriodFlushed(c, t, {})

\* the cache entry ss-lpf, if any
LpfEntry(c) == IF lpfKey \in DOMAIN c THEN <<c[lpfKey]>> ELSE <<>>

IsFlush(l) == l.op = "UpdateBackend"

SinkCalls(sink) == IF sink = "none" THEN 0 ELSE 1

(***************************************************************************)
(* Counters                                                                *)
(***************************************************************************)
\* C1: after increments of a counter that each returned ok and whose
\* deltas total D (a count, so D >= 0), with no other writer of its bucket,
\* peekCounter returns D.
C1_PeekCounterReturnsTotal ==
    \A id \in CounterIds :
        LET key == CurrentKey(scTypeCounter, id)
            p   == peekCounter(cache, ds, now, id[1], id[2], {})
        IN  (key \in DOMAIN okInc /\ key \notin disturbed /\ okInc[key] >= 0)
            => (p.res = "nil" /\ p.value = okInc[key])

\* C2: a counter bucket never decreases: after any IncrementCounterBy call,
\* ok or not, every counter bucket is at least what it was before the call.
C2_CounterNeverDecreases ==
    [][last'.op \in {"IncrementCounter", "IncrementCounterBy"}
       => \A k \in DOMAIN cache :
             cache[k].Value.enc = "ascii"
             => (k \in DOMAIN cache'
                 /\ ParseUint(cache'[k].Value).v >= ParseUint(cache[k].Value).v)]_vars

(***************************************************************************)
(* Gauges and timings                                                      *)
(***************************************************************************)
\* C3: after successful RecordGauge calls of a single writer, the last of
\* them with value v, the gauge's bucket of the current period holds
\* exactly the one-element list [v].
C3_GaugeBucketIsLastValue ==
    \A id \in GaugeIds :
        LET key == CurrentKey(scTypeGauge, id)
        IN  (key \in DOMAIN okSamples /\ key \notin disturbed)
            => /\ CacheHas(cache, key, now)
               /\ gobUnmarshal(cache[key].Value, "[]float64")
                    = [err |-> FALSE,
                       v |-> <<okSamples[key][Len(okSamples[key])]>>]

\* a gauge recorded twice with different values, the second call just back
C3_Witness ==
    \E id \in GaugeIds :
        LET key == CurrentKey(scTypeGauge, id)
        IN  /\ last.op = "RecordGauge" /\ last.res = "nil" /\ last.key = key
            /\ key \in DOMAIN okSamples
            /\ Len(okSamples[key]) = 2
            /\ okSamples[key][1] # okSamples[key][2]

\* C4: for a single writer within one period, the timing bucket holds
\* exactly the values of the RecordTiming calls that returned ok (not
\* sampled out, not dropped), in arrival order; there is no bucket when
\* there was no such call.
C4_TimingBucketIsArrivals ==
    \A id \in TimingIds :
        LET key == CurrentKey(scTypeTiming, id)
        IN  key \notin disturbed
            => IF key \in DOMAIN okSamples
               THEN /\ CacheHas(cache, key, now)
                    /\ gobUnmarshal(cache[key].Value, "[]float64")
                         = [err |-> FALSE, v |-> okSamples[key]]
               ELSE ~CacheHas(cache, key, now)

\* two timings recorded in an order that is not the sorted one
C4_Witness ==
    \E id \in TimingIds :
        LET key == CurrentKey(scTypeTiming, id)
        IN  /\ last.op = "RecordTiming" /\ last.res = "nil" /\ last.key = key
            /\ key \in DOMAIN okSamples
            /\ Len(okSamples[key]) = 2
            /\ okSamples[key][1] > okSamples[key][2]

(***************************************************************************)
(* The flush gate and ss-lpf                                               *)
(***************************************************************************)
\* C5 as claimed: a call is refused with TOO_SOON exactly when it is not
\* forced and period_start - ss-lpf < aggregation period, an absent ss-lpf
\* counting as the zero instant.
C5_TooSoonExactlyWhenStored ==
    IsFlush(last)
    => ((last.res = "ErrStatFlushTooSoon")
        <=> (~last.force
             /\ Sub(last.ps, last.lpfBefore) < defaultAggregationPeriod))

\* C5 as amended: a call is refused with TOO_SOON exactly when it is not
\* forced and period_start - L < aggregation period, L being the instant
\* ss-lpf holds when the call read it, and the zero instant when ss-lpf is
\* absent or the cache read failed; a forced call is never refused.
C5_TooSoonExactlyWhenRead ==
    IsFlush(last)
    => LET L == IF last.lpfRead = "ok" THEN last.lpfBefore ELSE ZeroTime
       IN  /\ (last.res = "ErrStatFlushTooSoon")
                <=> (~last.force
                     /\ Sub(last.ps, L) < defaultAggregationPeriod)
           /\ last.force => last.res # "ErrStatFlushTooSoon"

\* a call that is not forced, one whole period after the period ss-lpf
\* holds, is not refused
C5_Witness ==
    /\ IsFlush(last) /\ ~last.force /\ last.lpfRead = "ok"
    /\ last.lpfBefore # ZeroTime
    /\ last.ps - last.lpfBefore = defaultAggregationPeriod
    /\ last.res # "ErrStatFlushTooSoon"

\* C6: a call refused with TOO_SOON has no side effect: it calls no sink,
\* makes no call to the durable store (one cache read of ss-lpf is all it
\* does), and leaves the cache and the store as they were.
C6_TooSoonHasNoSideEffect ==
    [][(IsFlush(last') /\ last'.res = "ErrStatFlushTooSoon")
       => /\ cache' = cache
          /\ ds' = ds
          /\ last'.sink = "none"
          /\ last'.batch = {}
          /\ last'.calls = {"lpf.Get"}]_vars

\* a refused call, with buckets, configs and ss-lpf there to be touched
C6_Witness ==
    /\ IsFlush(last) /\ last.res = "ErrStatFlushTooSoon"
    /\ DOMAIN ds # {}
    /\ lpfKey \in DOMAIN cache
    /\ \E k \in DOMAIN cache : k \in DOMAIN okSamples \cup DOMAIN okInc

C8_LpfWrittenOnlyAfterAck ==
    [][/\ (LpfEntry(cache') # LpfEntry(cache))
            => /\ IsFlush(last') /\ last'.sink = "ok" /\ last'.res = "nil"
               /\ StoredLpf(cache', now') = last'.ps
               /\ cache'[lpfKey].Expires = NoExpiration
       /\ ("lpf.Set" \in last'.calls)
            => (IsFlush(last') /\ last'.sink = "ok")]_vars

\* a flush that moved ss-lpf from one period to another
C8_Witness ==
    /\ IsFlush(last) /\ last.sink = "ok"
    /\ last.lpfBefore # ZeroTime
    /\ last.lpfBefore # last.ps
    /\ StoredLpf(cache, now) = last.ps

\* C9: when the sink returns an error, UpdateBackend returns that error and
\* leaves ss-lpf as it was; a non-forced flush of the same period right
\* after a non-forced one that failed so is not refused.
C9_SinkErrorLeavesLpf ==
    [][/\ (IsFlush(last') /\ last'.sink = "err")
            => /\ last'.res = "sink.Flush"
               /\ LpfEntry(cache') = LpfEntry(cache)
               /\ last'.lpfWrite = "none"
       /\ (IsFlush(last') /\ IsFlush(last'.before)
           /\ last'.before.sink = "err"
           /\ ~last'.force /\ ~last'.before.force
           /\ last'.ps = last'.before.ps
           /\ last'.before.lpfRead = "ok" /\ last'.lpfRead = "ok")
            => last'.res # "ErrStatFlushTooSoon"]_vars

\* the sink failed on a flush while ss-lpf held an earlier period
C9_Witness ==
    /\ IsFlush(last) /\ last.sink = "err" /\ last.res = "sink.Flush"
    /\ last.lpfBefore # ZeroTime
    /\ StoredLpf(cache, now) = last.lpfBefore

\* C10: after an UpdateBackend call for period_start(p) that returned ok
\* having flushed the period's batch to the sink, ss-lpf >= period_start(p).
C10_OkFlushAdvancesLpf ==
    (IsFlush(last) /\ last.res = "nil" /\ last.sink = "ok")
    => StoredLpf(cache, now) >= last.ps

(***************************************************************************)
(* Delivery                                                                *)
(***************************************************************************)
\* the periods of the model of normal operation
DeliveryPeriods ==
    {getStartOfFlushPeriod(StartTime + m, 0) : m \in 0..DeliveryMaxTime}

\* the data the sink was handed for period P about the metric id of type typ
Sunk(P, typ, id) ==
    {e.datum : e \in {x \in delivery.sunk :
                        /\ x.ps = P
                        /\ x.datum.StatConfig.Type = typ
                        /\ x.datum.StatConfig.Name = id[1]
                        /\ x.datum.StatConfig.Source = id[2]}}

\* the bucket key of a metric in period P
KeyIn(typ, id, P) == BucketKey(StatConfig(typ, id[1], id[2], ZeroTime), P, 0)

\* the tick of the period after P has been delivered
TickedAfter(P) == (P + defaultAggregationPeriod) \in delivery.ticks

\* C11 as claimed: in normal operation every counter increment, gauge
\* sample and timing sample whose call returned ok is contained in a batch
\* handed to the sink, once the tick of the next period has been delivered.
C11_EverySampleDelivered ==
    \A P \in DeliveryPeriods :
        TickedAfter(P) =>
            /\ \A id \in CounterIds :
                 KeyIn(scTypeCounter, id, P) \in DOMAIN okInc
                 => \E d \in Sunk(P, scTypeCounter, id) :
                        d.Count >= okInc[KeyIn(scTypeCounter, id, P)]
            /\ \A id \in TimingIds :
                 KeyIn(scTypeTiming, id, P) \in DOMAIN okSamples
                 => \E d \in Sunk(P, scTypeTiming, id) :
                        d = timingDatum(d.StatConfig,
                                        okSamples[KeyIn(scTypeTiming, id, P)])
            /\ \A id \in GaugeIds :
                 KeyIn(scTypeGauge, id, P) \in DOMAIN okSamples
                 => \A i \in 1..Len(okSamples[KeyIn(scTypeGauge, id, P)]) :
                        \E d \in Sunk(P, scTypeGauge, id) :
                            d.Value = okSamples[KeyIn(scTypeGauge, id, P)][i]

\* C11 as amended: in normal operation, with whole recorder calls
\* interleaved with the ticks, once the tick of the period after P has been
\* delivered the sink has been handed exactly one datum for every metric
\* recorded in P: for a counter its Count is the bucket's value, the total
\* of the ok deltas when none was negative and at least that total
\* otherwise; for a timing the summary of all the ok samples; for a gauge
\* the value of the last ok sample only.
C11_EveryBucketDelivered ==
    \A P \in DeliveryPeriods :
        TickedAfter(P) =>
            /\ \A id \in CounterIds :
                 LET key == KeyIn(scTypeCounter, id, P)
                 IN  key \in DOMAIN okInc
                     => /\ Cardinality(Sunk(P, scTypeCounter, id)) = 1
                        /\ \A d \in Sunk(P, scTypeCounter, id) :
                              /\ d.Count >= okInc[key]
                              /\ key \notin delivery.negative
                                   => d.Count = okInc[key]
            /\ \A id \in TimingIds :
                 LET key == KeyIn(scTypeTiming, id, P)
                 IN  key \in DOMAIN okSamples
                     => /\ Cardinality(Sunk(P, scTypeTiming, id)) = 1
                        /\ \A d \in Sunk(P, scTypeTiming, id) :
                              d = timingDatum(d.StatConfig, okSamples[key])
            /\ \A id \in GaugeIds :
                 LET key == KeyIn(scTypeGauge, id, P)
                 IN  key \in DOMAIN okSamples
                     => /\ Cardinality(Sunk(P, scTypeGauge, id)) = 1
                        /\ \A d \in Sunk(P, scTypeGauge, id) :
                              d.Value = okSamples[key][Len(okSamples[key])]

\* two periods with recordings have both been handed to the sink
C11_Witness ==
    \E P \in DeliveryPeriods :
        /\ TickedAfter(P)
        /\ TickedAfter(P + defaultAggregationPeriod)
        /\ \E x \in delivery.sunk : x.ps = P
        /\ \E x \in delivery.sunk : x.ps = P + defaultAggregationPeriod

(***************************************************************************)
(* Timing summaries                                                        *)
(***************************************************************************)
\* a StatDataTiming has been made from the bucket
Summarised == timings.datum.kind = "StatDataTiming"

\* the samples of the bucket, in the order they were recorded
X == timings.gm

\* the samples of the bucket in ascending order
List == SortFloat64s(timings.gm)

\* l is s put in ascending order
IsAscendingOf(l, s) ==
    /\ Len(l) = Len(s)
    /\ \A i \in 1..(Len(l) - 1) : l[i] <= l[i + 1]
    /\ \A v \in TimingValues :
          Cardinality({i \in 1..Len(l) : l[i] = v})
            = Cardinality({i \in 1..Len(s) : s[i] = v})

\* C12: the StatDataTiming made from a non-empty bucket holding samples X
\* has Count = |X|, Min = min X, Max = max X, Sum = the sum of X and
\* SumSquares = the sum of the squares of X, whatever the order of X.
C12_TimingSummaryOfSamples ==
    Summarised
    => /\ timings.datum.Count = Len(X)
       /\ \E i \in 1..Len(X) : timings.datum.Min = X[i]
       /\ \A i \in 1..Len(X) : timings.datum.Min <= X[i]
       /\ \E i \in 1..Len(X) : timings.datum.Max = X[i]
       /\ \A i \in 1..Len(X) : timings.datum.Max >= X[i]
       /\ timings.datum.Sum = SumTo(X, Len(X))
       /\ timings.datum.SumSquares = SumSquaresTo(X, Len(X))

\* samples recorded in descending order, then summarised
C12_Witness ==
    /\ Summarised
    /\ Len(X) >= 3
    /\ X[1] > X[2] /\ X[2] > X[3]

\* C13: with the n samples sorted ascending as list (indices from 0), Median
\* is list[0] when n = 1, list[n/2] when n is odd, and
\* (list[n/2-1] + list[n/2])/2 when n is even.
C13_MedianOfSorted ==
    Summarised
    => LET n == Len(X)
       IN  /\ IsAscendingOf(List, X)
           /\ n = 1 => timings.datum.Median = List[1]
           /\ n % 2 = 1 => timings.datum.Median = List[(n \div 2) + 1]
           /\ n % 2 = 0
                => 2 * timings.datum.Median
                     = List[n \div 2] + List[(n \div 2) + 1]

\* an even number of samples whose two middle ones differ, recorded out of
\* order
C13_Witness ==
    /\ Summarised
    /\ Len(X) = 4
    /\ List # X
    /\ List[2] # List[3]

\* C14: with the n >= 1 samples sorted ascending as list (indices from 0)
\* and k = ceil(0.9 n): NinthDecileCount = k, NinthDecileValue = list[k-1],
\* NinthDecileSum = the sum of the k smallest samples, and 1 <= k <= n.
C14_NinthDecile ==
    Summarised
    => LET n == Len(X)
           k == CHOOSE j \in 0..n : 10 * j >= 9 * n /\ 10 * (j - 1) < 9 * n
       IN  /\ IsAscendingOf(List, X)
           /\ 1 <= k /\ k <= n
           /\ timings.datum.NinthDecileCount = k
           /\ timings.datum.NinthDecileValue = List[k]
           /\ timings.datum.NinthDecileSum = SumTo(List, k)

\* ten samples: the ninth decile leaves the largest one out
C14_Witness ==
    /\ Summarised
    /\ Len(X) = 10
    /\ timings.datum.NinthDecileCount = 9
    /\ timings.datum.NinthDecileValue < timings.datum.Max

(***************************************************************************)
(* Parallel writers                                                        *)
(***************************************************************************)
\* the values of the calls of op on the bucket key that handlers have issued
Issued(op, key) ==
    {handlers[h].value :
        h \in {g \in Handlers : handlers[g].op = op /\ handlers[g].key = key}}

\* the handlers whose call of op returned ok
ReturnedOk(op) ==
    {h \in Handlers : /\ handlers[h].op = op
                      /\ handlers[h].pc = "done"
                      /\ handlers[h].res = "nil"}

\* the list a bucket holds
Bucket(key) == gobUnmarshal(cache[key].Value, "[]float64")

\* C15: after any interleaving of IncrementCounterBy calls of several
\* handlers on one counter within one period, the bucket holds the sum
\* (a count, so >= 0) of the deltas of the calls that returned ok.
C15_ParallelCounterIsSum ==
    \A id \in CounterIds :
        LET key == CurrentKey(scTypeCounter, id)
        IN  (key \in DOMAIN okInc /\ okInc[key] >= 0)
            => /\ CacheHas(cache, key, now)
               /\ ParseUint(cache[key].Value).v = okInc[key]

\* C16: under any interleaving of RecordGauge calls on one gauge, from the
\* first successful write on the bucket holds exactly one element, the
\* value of one of the calls issued so far.
C16_ParallelGaugeHoldsOneIssuedValue ==
    \A id \in GaugeIds :
        LET key == CurrentKey(scTypeGauge, id)
        IN  key \in DOMAIN okSamples
            => /\ CacheHas(cache, key, now)
               /\ ~Bucket(key).err
               /\ Len(Bucket(key).v) = 1
               /\ Bucket(key).v[1] \in Issued("RecordGauge", key)

\* C16 happens: two RecordGauge calls with different values both read the
\* bucket before either wrote it, and both returned ok
C16_Witness ==
    /\ ReturnedOk("RecordGauge") = Handlers
    /\ \A h \in Handlers : ~handlers[h].hit
    /\ \E g, h \in Handlers : handlers[g].value # handlers[h].value

\* C17: under any interleaving of RecordTiming calls on one bucket, once a
\* write succeeded the bucket holds only values that were recorded, and its
\* last element is the value of the write that completed last.
C17_ParallelTimingKeepsLastWrite ==
    \A id \in TimingIds :
        LET key == CurrentKey(scTypeTiming, id)
        IN  key \in DOMAIN okSamples
            => /\ CacheHas(cache, key, now)
               /\ ~Bucket(key).err
               /\ Len(Bucket(key).v) >= 1
               /\ \A i \in 1..Len(Bucket(key).v) :
                     Bucket(key).v[i] \in Issued("RecordTiming", key)
               /\ Bucket(key).v[Len(Bucket(key).v)]
                     = okSamples[key][Len(okSamples[key])]

\* C17 happens: two RecordTiming calls with different values on one bucket
\* each read before the other wrote, both returned ok, and the bucket holds
\* one sample only
C17_Witness ==
    /\ ReturnedOk("RecordTiming") = Handlers
    /\ \A h \in Handlers : ~handlers[h].hit
    /\ \E g, h \in Handlers : handlers[g].value # handlers[h].value
    /\ \A id \in TimingIds :
          /\ CacheHas(cache, CurrentKey(scTypeTiming, id), now)
          /\ Len(Bucket(CurrentKey(scTypeTiming, id)).v) = 1

(***************************************************************************)
(* Parallel flushers                                                       *)
(***************************************************************************)
\* the non-forced calls of all handlers were for one period_start, all read
\* ss-lpf before any of them came to write it, and all returned nil
RacedAndReturnedOk ==
    /\ \A h \in Handlers : /\ handlers[h].pc = "done"
                            /\ handlers[h].res = "nil"
                            /\ handlers[h].early
    /\ \A g, h \in Handlers : handlers[g].ps = handlers[h].ps

\* C18 as claimed: when two non-forced UpdateBackend calls for the same
\* period_start both read ss-lpf before either writes it, each makes its own
\* sink submission, and once both completed ok ss-lpf is that period_start.
C18_RacingFlushersEachSubmit ==
    RacedAndReturnedOk
    => /\ \A h \in Handlers : handlers[h].sink = "ok"
       /\ \A h \in Handlers : StoredLpf(cache, now) = handlers[h].ps

\* C18 as amended: of such calls, each that found data of the period makes
\* its own sink submission and then writes ss-lpf; one that found none
\* makes no submission and no write; once all completed ok, ss-lpf is that
\* period_start if one of the writes reached the cache.
C18_RacingFlushersWithDataEachSubmit ==
    RacedAndReturnedOk
    => /\ \A h \in Handlers :
             IF handlers[h].data # {}
             THEN handlers[h].sink = "ok" /\ handlers[h].lpfWrite # "none"
             ELSE handlers[h].sink = "none" /\ handlers[h].lpfWrite = "none"
       /\ \A h \in Handlers :
             (\E g \in Handlers : handlers[g].lpfWrite = "ok")
             => StoredLpf(cache, now) = handlers[h].ps

\* C18 happens: both racing calls flushed their batch and wrote ss-lpf
C18_Witness ==
    /\ RacedAndReturnedOk
    /\ \A h \in Handlers : /\ handlers[h].data # {}
                            /\ handlers[h].sink = "ok"
                            /\ handlers[h].lpfWrite = "ok"
                            /\ StoredLpf(cache, now) = handlers[h].ps

(***************************************************************************)
(* The config registry                                                     *)
(***************************************************************************)
\* the cache key and the store key of the config a logged call asked for
ConfKey(r) == getStatConfigMemcacheKey(r.id[1], r.id[2], r.id[3])

StoreKey(r) == getStatConfigKeyName(r.id[1], r.id[2], r.id[3])

\* C19: when getStatConfig, none of its calls failing, misses the config
\* cache and finds a durable StatConfig whose LastRead is less than 48h old,
\* it returns that record as stored and the store is the same after the call.
C19_NoSpuriousLastReadRefresh ==
    \A i \in 1..Len(registry) :
        (/\ i = 1
         /\ registry[i].F = {}
         /\ registry[i].err = "nil"
         /\ ~CacheHas(registry[i].cacheBefore, ConfKey(registry[i]), registry[i].at)
         /\ StoreKey(registry[i]) \in DOMAIN registry[i].dsBefore
         /\ registry[i].at - registry[i].dsBefore[StoreKey(registry[i])].LastRead
               < activeCutoff)
        => /\ registry[i].sc = registry[i].dsBefore[StoreKey(registry[i])]
           /\ registry[i].dsAfter = registry[i].dsBefore

\* two calls in a row for one (type, name, source), the second less than
\* 24h after the first, both returning ok
TwoCallsWithin24h ==
    /\ Len(registry) = 2
    /\ registry[1].id = registry[2].id
    /\ registry[1].at - registry[2].at < configExpiration
    /\ registry[1].err = "nil"
    /\ registry[2].err = "nil"

AllConfigIds ==
    ConfigIds \cup {<<scTypeTiming, id[1], id[2]>> : id \in TimingIds}

RecorderOps ==
    {"IncrementCounter", "IncrementCounterBy", "RecordGauge", "RecordTiming"}

\* the call made the durable write of its config and did not go on to the
\* cache.Add that follows a write that succeeded
PutFailed(l) ==
    l.op \in RecorderOps /\ "ds.Put" \in l.calls /\ "conf.Add" \notin l.calls

\* C21: when the durable write of a created or refreshed StatConfig fails,
\* getStatConfig adds nothing to the config cache, leaves the store as it
\* was and returns the in-memory StatConfig (LastRead = now) with no error;
\* the recorder call around it goes on to its bucket and, when it returns
\* ok, has written it.
C21_FailedPutStillRecords ==
    [][/\ \A id \in AllConfigIds :
             LET r == getStatConfig(cache, ds, now, id[1], id[2], id[3],
                                    {"ds.Put"})
                 k == getStatConfigKeyName(id[1], id[2], id[3])
             IN  "ds.Put" \in r.calls
                 => /\ r.err = "nil"
                    /\ r.cache = cache
                    /\ r.ds = ds
                    /\ r.sc = [(IF k \in DOMAIN ds THEN ds[k]
                                ELSE StatConfig(id[1], id[2], id[3], ZeroTime))
                               EXCEPT !.LastRead = now]
       /\ PutFailed(last')
             => /\ ds' = ds
                /\ \A id \in AllConfigIds :
                      LET ck == getStatConfigMemcacheKey(id[1], id[2], id[3])
                      IN  CacheHas(cache', ck, now') = CacheHas(cache, ck, now)
                /\ last'.calls \cap {"cache.Increment", "bucket.Get"} # {}
                /\ last'.res = "nil" => CacheHas(cache', last'.key, now')]_vars

\* C21 happens: a recorder call whose durable write of a new config failed
\* returned ok, its bucket is written and its config is neither stored nor
\* cached
C21_Witness ==
    /\ PutFailed(last)
    /\ last.res = "nil"
    /\ CacheHas(cache, last.key, now)
    /\ ds = EmptyMap
    /\ \A id \in AllConfigIds :
          ~CacheHas(cache, getStatConfigMemcacheKey(id[1], id[2], id[3]), now)

(***************************************************************************)
(* Active configs and Purge                                                *)
(***************************************************************************)
\* C22: getActiveConfigs(at) has exactly one entry per durable StatConfig
\* with LastRead > at - 48h, keyed by its bucket key; so after a successful
\* Purge and then a recording of one metric that returned ok (its durable
\* write, if it made one, not failing), getActiveConfigs(now) is exactly the
\* one entry of that metric's bucket key.
C22_ActiveConfigsAfterPurge ==
    [][(/\ last.op = "Purge" /\ last.res = "nil"
        /\ last'.op \in RecorderOps /\ last'.res = "nil"
        /\ ~PutFailed(last'))
       => /\ getActiveConfigs(ds', now', 0, FALSE, {}).err = "nil"
          /\ DOMAIN getActiveConfigs(ds', now', 0, FALSE, {}).cfgs
                = {last'.key}]_vars

\* the bucket keys of the current and of the previous period of the
\* StatConfigs in the store d at the instant t
PurgedBucketKeys(d, t) ==
    {BucketKey(d[k], t, 0) : k \in DOMAIN d}
        \cup {BucketKey(d[k], t, -1) : k \in DOMAIN d}

\* C23 as claimed: after a Purge that returned ok, no StatConfig that was in
\* the store remains, and the bucket keys of the current and of the previous
\* period of each of them are absent from the cache.
C23_PurgeDeletesConfigsAndBuckets ==
    [][(last'.op = "Purge" /\ last'.res = "nil")
       => /\ \A k \in DOMAIN ds : k \notin DOMAIN ds'
          /\ \A bk \in PurgedBucketKeys(ds, now) : bk \notin DOMAIN cache']_vars

\* C23 as amended: after a Purge that returned ok, no StatConfig that was in
\* the store remains; the bucket keys of the current and of the previous
\* period of each of them are absent from the cache, unless the cache
\* deletion failed, and then the cache is as it was.
C23_PurgeDeletesBucketsBestEffort ==
    [][(last'.op = "Purge" /\ last'.res = "nil")
       => /\ \A k \in DOMAIN ds : k \notin DOMAIN ds'
          /\ \/ /\ \A bk \in PurgedBucketKeys(ds, now) : bk \notin DOMAIN cache'
                /\ \A x \in DOMAIN cache \ PurgedBucketKeys(ds, now) :
                      x \in DOMAIN cache' /\ cache'[x] = cache[x]
             \/ cache' = cache]_vars

\* C23 happens: a Purge returned ok having deleted the configs, and a
\* bucket written in the previous period is gone from the cache
C23_Witness ==
    /\ last.op = "Purge" /\ last.res = "nil"
    /\ "ds.DeleteMulti" \in last.calls
    /\ ds = EmptyMap
    /\ \E k \in DOMAIN okInc \cup DOMAIN okSamples :
          /\ k \notin DOMAIN cache
          /\ k \in disturbed
          /\ \E id \in CounterIds : k # CurrentKey(scTypeCounter, id)
          /\ \E id \in GaugeIds : k # CurrentKey(scTypeGauge, id)
          /\ \E id \in TimingIds : k # CurrentKey(scTypeTiming, id)

(***************************************************************************)
(* Sampling and dropped samples                                            *)
(***************************************************************************)
\* sample rates from 0 to above 1.0 and draws of [0, 1), in hundredths
AnyRates == {0, 50, 99, 100, 150}

AnyDraws == {0, 25, 50, 75, 99}

\* C24: RecordTiming with sample_rate < 1.0 whose draw exceeds sample_rate
\* returns ErrStatNotSampled having made no call on the cache or the store
\* and leaving both as they were; RecordGauge, and RecordTiming with
\* sample_rate >= 1.0, never return ErrStatNotSampled.
C24_NotSampledTouchesNothing ==
    [][/\ \A id \in TimingIds, value \in Values,
            sampleRate \in AnyRates, draw \in AnyDraws :
             LET r == recordGaugeOrTiming(cache, ds, now, scTypeTiming,
                                          id[1], id[2], value, sampleRate,
                                          draw, {})
             IN  /\ (sampleRate < 100 /\ draw > sampleRate)
                       => /\ r.res = "ErrStatNotSampled"
                          /\ r.calls = {}
                          /\ r.cache = cache
                          /\ r.ds = ds
                 /\ sampleRate >= 100 => r.res # "ErrStatNotSampled"
       /\ last'.res = "ErrStatNotSampled"
             => /\ last'.op = "RecordTiming"
                /\ last'.calls = {}
                /\ cache' = cache
                /\ ds' = ds
       /\ last'.op = "RecordGauge" => last'.res # "ErrStatNotSampled"]_vars

\* C24 happens: a RecordTiming call was not sampled while the metric has a
\* bucket, which holds what the earlier calls left
C24_Witness ==
    /\ last.op = "RecordTiming"
    /\ last.res = "ErrStatNotSampled"
    /\ \E id \in TimingIds :
          /\ CurrentKey(scTypeTiming, id) \in DOMAIN okSamples
          /\ CacheHas(cache, CurrentKey(scTypeTiming, id), now)
          /\ Bucket(CurrentKey(scTypeTiming, id)).v
                = okSamples[CurrentKey(scTypeTiming, id)]

\* the cache holds the same under key in c1 as in c2, or nothing in both
SameBucket(c1, c2, key, t) ==
    /\ CacheHas(c1, key, t) = CacheHas(c2, key, t)
    /\ CacheHas(c1, key, t) => c1[key] = c2[key]

\* every (type, name, source) RecordGauge and RecordTiming name
SampleIds ==
    {<<scTypeGauge, id[1], id[2]>> : id \in GaugeIds}
        \cup {<<scTypeTiming, id[1], id[2]>> : id \in TimingIds}

\* the cause a failing call site gives the error
CauseOf(site) ==
    IF site = "bucket.Get" THEN "cache.Get"
    ELSE IF site = "bucket.Set" THEN "cache.Set"
    ELSE site

\* C25: a RecordGauge or RecordTiming call that cannot store its sample
\* (the config lookup fails, the read of the bucket fails otherwise than by
\* a miss, or the write of the bucket fails) returns an ErrStatDropped with
\* the type, name, source, time, value and cause, and leaves the bucket as
\* it was.
C25_DroppedSampleLeavesBucket ==
    [][/\ \A id \in SampleIds, value \in Values,
            site \in {"ds.Get", "bucket.Get", "bucket.Set"} :
             LET r == recordGaugeOrTiming(cache, ds, now, id[1], id[2], id[3],
                                          value, 100, 0, {site})
                 key == BucketKey(StatConfig(id[1], id[2], id[3], ZeroTime),
                                  now, 0)
             IN  /\ site \in r.calls
                       => /\ r.res = "ErrStatDropped"
                          /\ r.error.err = CauseOf(site)
                 /\ r.res # "nil"
                       => /\ r.res = "ErrStatDropped"
                          /\ r.error.typ = id[1]
                          /\ r.error.name = id[2]
                          /\ r.error.source = id[3]
                          /\ r.error.t = now
                          /\ r.error.value = value
                          /\ r.error.err = r.cause
                          /\ r.cause # "nil"
                          /\ SameBucket(r.cache, cache, key, now)
       /\ (last'.op \in {"RecordGauge", "RecordTiming"}
           /\ last'.res = "ErrStatDropped")
             => \A id \in GaugeIds \cup TimingIds :
                  /\ SameBucket(cache', cache, CurrentKey(scTypeGauge, id), now)
                  /\ SameBucket(cache', cache, CurrentKey(scTypeTiming, id), now)]_vars

\* C25 happens: a recording whose write of the bucket failed was dropped
\* while the bucket holds the samples of the earlier calls
C25_Witness ==
    /\ last.op \in {"RecordGauge", "RecordTiming"}
    /\ last.res = "ErrStatDropped"
    /\ "bucket.Set" \in last.calls
    /\ last.key \in DOMAIN okSamples
    /\ CacheHas(cache, last.key, now)
    /\ Bucket(last.key).v # <<>>

(***************************************************************************)
(* Flush periods                                                           *)
(***************************************************************************)
\* the 300-second window of an instant, counted from the Unix epoch
Window(t) == t \div defaultAggregationPeriod

\* C26: getStartOfFlushPeriod(t, offset) is t truncated down to a multiple
\* of 300 s plus offset x 300 s: with offset 0 it is at most t and less than
\* 300 s before it, it is its own start of period, and the bucket keys of a
\* metric at two instants are the same exactly when the instants lie in the
\* same 300-second window.
C26_PeriodStartIsTruncation ==
    registry # NoRegistry
    => /\ registry.start
            = Window(registry.at) * defaultAggregationPeriod
              + registry.offset * defaultAggregationPeriod
       /\ registry.offset = 0
            => /\ registry.start <= registry.at
               /\ registry.at < registry.start + defaultAggregationPeriod
       /\ registry.again = registry.start
       /\ (registry.keyAt = registry.keyOther)
            <=> (Window(registry.at) = Window(registry.other))

\* C26 happens: two instants before the Unix epoch, four minutes apart, in
\* two windows
C26_Witness ==
    /\ registry # NoRegistry
    /\ registry.at < 0
    /\ registry.other = registry.at + 4
    /\ registry.offset = 0
    /\ registry.start < registry.at
    /\ registry.keyAt # registry.keyOther


(***************************************************************************)
(* The Librato flusher                                                     *)
(***************************************************************************)
Flushed == registry.state = "returned"

\* C27: the Librato flusher returns an error only when the HTTP request
\* itself failed; for every HTTP response, whatever its status code, Flush
\* returns nil, UpdateBackend returns nil and ss-lpf holds the flushed
\* period, also when the backend rejected the submission.
C27_OnlyTransportErrorsFailTheFlush ==
    Flushed =>
        /\ registry.flush # "nil" <=> registry.response.kind = "error"
        /\ registry.response.kind = "response" =>
              /\ registry.flush = "nil"
              /\ registry.res = "nil"
              /\ StoredLpf(cache, now) = doFlushPeriod(now)
        /\ registry.response.kind = "error" =>
              /\ registry.res # "nil"
              /\ StoredLpf(cache, now) = ZeroTime

\* C27 witness: the backend answered 500 and the period is marked flushed.
C27_Witness ==
    /\ Flushed
    /\ registry.response.kind = "response"
    /\ registry.response.StatusCode = 500
    /\ registry.flush = "nil"
    /\ StoredLpf(cache, now) = doFlushPeriod(now)

\* the number of records of kind k among the first n of data
KindCount(data, k, n) == Cardinality({i \in 1..n : data[i].kind = k})

\* the index of the family a record at position p is posted under
PostIndex(data, p) ==
    IF data[p].kind = "StatDataCounter"
    THEN KindCount(data, "StatDataCounter", p - 1)
    ELSE KindCount(data, "StatDataGauge", p - 1)
         + 2 * KindCount(data, "StatDataTiming", p - 1)

\* the indices of a family that appear in some key of the postdata
UsedIndices(postdata, typ) ==
    {i \in 0..(2 * MaxBatch + 2) :
        \E field \in {"name", "value", "source", "count", "min", "max", "sum",
                       "sum_squares"} :
            getPostKey(typ, field, i) \in DOMAIN postdata}

\* C28: in the posted form of a batch with c counters, g gauges and t
\* timings the counter family uses exactly the indices 0..c-1 and the gauge
\* family exactly 0..g+2t-1, in the order of the batch and no key twice; a
\* timing takes two consecutive gauge indices (its name, then name + ".90");
\* a source field is posted exactly when the source is not empty.
C28_PostIndices ==
    Flushed =>
        LET data == registry.data
            pd == registry.postdata
            n == Len(data)
        IN  /\ UsedIndices(pd, "counters")
                  = 0..(KindCount(data, "StatDataCounter", n) - 1)
            /\ UsedIndices(pd, "gauges")
                  = 0..(KindCount(data, "StatDataGauge", n)
                        + 2 * KindCount(data, "StatDataTiming", n) - 1)
            /\ \A k \in DOMAIN pd : Len(pd[k]) = 1
            /\ \A p \in 1..n :
                  LET d == data[p]
                      i == PostIndex(data, p)
                      typ == IF d.kind = "StatDataCounter"
                             THEN "counters" ELSE "gauges"
                      src == d.StatConfig.Source
                  IN  /\ getPostKey(typ, "name", i) \in DOMAIN pd
                      /\ pd[getPostKey(typ, "name", i)] = <<d.StatConfig.Name>>
                      /\ getPostKey(typ, "source", i) \in DOMAIN pd
                            <=> src # ""
                      /\ src # "" => pd[getPostKey(typ, "source", i)] = <<src>>
                      /\ d.kind = "StatDataTiming" =>
                            /\ getPostKey(typ, "name", i + 1) \in DOMAIN pd
                            /\ pd[getPostKey(typ, "name", i + 1)]
                                  = <<d.StatConfig.Name \o ".90">>
                            /\ pd[getPostKey(typ, "count", i + 1)]
                                  = <<Sprintf("%d", d.NinthDecileCount)>>
                            /\ getPostKey(typ, "source", i + 1) \in DOMAIN pd
                                  <=> src # ""

\* C28 witness: a batch of a timing without source, a counter and a gauge
\* with source was posted; the gauge follows the timing's two entries.
C28_Witness ==
    /\ Flushed
    /\ Len(registry.data) = 3
    /\ registry.data[1].kind = "StatDataTiming"
    /\ registry.data[1].StatConfig.Source = ""
    /\ registry.data[2].kind = "StatDataCounter"
    /\ registry.data[3].kind = "StatDataGauge"
    /\ registry.data[3].StatConfig.Source # ""
    /\ "gauges[2][source]" \in DOMAIN registry.postdata
    /\ "gauges[1][source]" \notin DOMAIN registry.postdata
    /\ "counters[0][name]" \in DOMAIN registry.postdata


(***************************************************************************)
(* Expiration of the buckets                                               *)
(***************************************************************************)
\* C29: every bucket is stored with an expiration of twice the aggregation
\* period: after a recorder call that returned nil its bucket is in the
\* cache with an expiration, and a bucket the call created expires 10
\* minutes after the call.
C29_BucketsCarryExpiration ==
    [][(last'.op \in RecorderOps /\ last'.res = "nil")
          => /\ CacheHas(cache', last'.key, now)
             /\ cache'[last'.key].Expires # NoExpiration
             /\ ~CacheHas(cache, last'.key, now)
                   => cache'[last'.key].Expires = now + bucketExpiration]_vars


(***************************************************************************)
(* Empty batches                                                           *)
(***************************************************************************)
\* the records UpdateBackend would summarise for periodStart from c and d
Summaries(c, d, t, periodStart) ==
    LET a == getActiveConfigs(d, periodStart, 0, FALSE, {})
    IN  {k \in DOMAIN a.cfgs :
            CacheHas(c, k, t) /\ summarise(a.cfgs[k], c[k].Value).out # "skip"}

\* C30: UpdateBackend never hands the flusher an empty batch: past the gate
\* and the query, when no config is active, when cache.GetMulti fails, or
\* when no bucket of the period yields a summary, it returns nil, does not
\* call the flusher and leaves ss-lpf as it was.
C30_NoEmptyBatchToTheSink ==
    [][/\ \A periodStart \in PeriodStarts(now), force \in BOOLEAN,
            F \in {{}} \cup {{f} : f \in FlushFaults} :
             LET r == updateBackend(cache, ds, now, periodStart, force, F)
                 active == getActiveConfigs(ds, periodStart, 0, FALSE, {}).cfgs
                 past == /\ ~tooSoon(periodStart,
                                     getLastPeriodFlushed(cache, now, F), force)
                         /\ "ds.Query" \notin F
             IN  /\ r.sink # "none" => r.batch # {}
                 /\ (past /\ \/ DOMAIN active = {}
                             \/ "cache.GetMulti" \in F
                             \/ Summaries(cache, ds, now, periodStart) = {})
                       => /\ r.res = "nil"
                          /\ r.sink = "none"
                          /\ r.batch = {}
                          /\ r.lpfWrite = "none"
                          /\ StoredLpf(r.cache, now) = StoredLpf(cache, now)
       /\ last'.op = "UpdateBackend"
             => /\ last'.sink # "none" => last'.batch # {}
                /\ last'.sink = "none"
                      => StoredLpf(cache', now) = StoredLpf(cache, now)]_vars

\* C30 happens: an UpdateBackend found an active config and read the cache,
\* got no summary, returned nil without calling the flusher, and ss-lpf is
\* what it was before and not the period asked for.
C30_Witness ==
    /\ last.op = "UpdateBackend"
    /\ "cache.GetMulti" \in last.calls
    /\ DOMAIN ds # {}
    /\ last.res = "nil"
    /\ last.sink = "none"
    /\ last.batch = {}
    /\ StoredLpf(cache, now) = last.lpfBefore
    /\ StoredLpf(cache, now) # last.ps


(***************************************************************************)
(* A failing config iterator                                               *)
(***************************************************************************)
\* C31: when iter.Next fails, getActiveConfigs returns the configs iterated
\* so far together with the error, and UpdateBackend returns that error
\* without reading a bucket, without calling the flusher and with ss-lpf as
\* it was.
C31_IteratorFailureAbortsFlush ==
    [][/\ \A periodStart \in PeriodStarts(now), seen \in SUBSET (DOMAIN ds) :
             LET a == getActiveConfigs(ds, periodStart, 0, TRUE, seen)
                 live == {k \in seen :
                             ds[k].LastRead > periodStart - activeCutoff}
             IN  /\ a.err = "ds.Query"
                 /\ DOMAIN a.cfgs = {BucketKey(ds[k], periodStart, 0) : k \in live}
                 /\ \A k \in live : a.cfgs[BucketKey(ds[k], periodStart, 0)] = ds[k]
       /\ \A periodStart \in PeriodStarts(now), force \in BOOLEAN :
             LET r == updateBackend(cache, ds, now, periodStart, force,
                                    {"ds.Query"})
             IN  ~tooSoon(periodStart, getLastPeriodFlushed(cache, now, {}),
                          force)
                   => /\ r.res = "ds.Query"
                      /\ "cache.GetMulti" \notin r.calls
                      /\ r.sink = "none"
                      /\ r.lpfWrite = "none"
                      /\ r.cache = cache
       /\ (last'.op = "UpdateBackend" /\ "ds.Query" \in last'.calls
              /\ last'.res # "nil" /\ "cache.GetMulti" \notin last'.calls)
             => /\ last'.res = "ds.Query"
                /\ last'.sink = "none"
                /\ cache' = cache
                /\ ds' = ds]_vars

\* C31 happens: an UpdateBackend whose iterator failed returned the error
\* while an active config had its bucket in the cache
C31_Witness ==
    /\ last.op = "UpdateBackend"
    /\ last.res = "ds.Query"
    /\ last.sink = "none"
    /\ "cache.GetMulti" \notin last.calls
    /\ Summaries(cache, ds, now, last.ps) # {}
    /\ StoredLpf(cache, now) = last.lpfBefore


(***************************************************************************)
(* What a flush leaves alone                                               *)
(***************************************************************************)
\* c1 and c2 hold the same under every key but ss-lpf
SameButLpf(c1, c2) ==
    /\ DOMAIN c1 \ {lpfKey} = DOMAIN c2 \ {lpfKey}
    /\ \A k \in DOMAIN c1 \ {lpfKey} : c1[k] = c2[k]

\* both the forced flush remembered in registry and the one in step called
\* the flusher, and no public call was made in between
Reflushed ==
    /\ registry.sink # "none"
    /\ registry'.sink # "none"
    /\ registry' # registry \/ last' # last
    /\ last'.op = "UpdateBackend" /\ last'.force /\ last'.ps = ReflushPeriod
    /\ registry.nops = nops
    /\ registry'.nops = nops

\* whatever fails in it, an UpdateBackend from the present state leaves every
\* cache entry but ss-lpf as it is
FlushFrame ==
    \A periodStart \in {ReflushPeriod, now}, force \in BOOLEAN,
       F \in {{}, {"cache.GetMulti"}, {"sink.Flush"}, {"lpf.Set"}} :
        SameButLpf(updateBackend(cache, ds, now, periodStart, force, F).cache,
                   cache)

\* C32 as claimed: UpdateBackend writes nothing but ss-lpf, and two forced
\* flushes of one period with no recorder write in between hand the flusher
\* the same set of records.
C32_ReflushSameBatch ==
    [][/\ FlushFrame
       /\ last'.op = "UpdateBackend" => (ds' = ds /\ SameButLpf(cache', cache))
       /\ Reflushed => registry'.batch = registry.batch]_vars

\* C32 amended: UpdateBackend writes nothing but ss-lpf, and two forced
\* flushes of one period with no recorder write in between and no bucket
\* expired in between hand the flusher the same set of records.
C32_ReflushSameBatchWithinTTL ==
    [][/\ FlushFrame
       /\ last'.op = "UpdateBackend" => (ds' = ds /\ SameButLpf(cache', cache))
       /\ (Reflushed /\ registry'.keys = registry.keys)
             => registry'.batch = registry.batch]_vars

\* C32 happens: a second forced flush of the period, made right after the
\* clock moved and with every bucket still cached, handed the flusher the
\* two records the first one did.
C32_Witness ==
    /\ last.op = "UpdateBackend" /\ last.force /\ last.ps = ReflushPeriod
    /\ registry.again
    /\ last.before.op = "other"
    /\ registry.nops = nops
    /\ registry.sink = "ok"
    /\ Cardinality(registry.batch) = 2
    /\ StoredLpf(cache, now) = ReflushPeriod


(***************************************************************************)
(* The content of a batch                                                  *)
(***************************************************************************)
\* the store keys of the configs active for periodStart whose bucket of
\* that period is in the cache
Bucketed(c, d, t, periodStart) ==
    {k \in DOMAIN d :
        /\ d[k].LastRead > periodStart - activeCutoff
        /\ CacheHas(c, BucketKey(d[k], periodStart, 0), t)}

\* the bytes are what a recorder writes for a metric of this type
Decodable(typ, value) ==
    IF typ = scTypeCounter THEN value.enc = "ascii"
    ELSE value.enc = "gob" /\ value.typ = "[]float64"

\* the record a config and the content of its bucket call for
RecordOf(cfg, value) ==
    IF cfg.Type = scTypeCounter
    THEN [kind |-> "StatDataCounter", StatConfig |-> cfg,
          Count |-> IF value.enc = "ascii" THEN value.v ELSE 0]
    ELSE IF cfg.Type = scTypeGauge
    THEN [kind |-> "StatDataGauge", StatConfig |-> cfg, Value |-> value.v[1]]
    ELSE timingDatum(cfg, value.v)

\* the step is an UpdateBackend
Flushing == last'.op = "UpdateBackend" /\ nops' = nops + 1

\* the step is an UpdateBackend that called the flusher
FlushedBatch == Flushing /\ last'.sink # "none"

\* C33 as claimed: the batch of a flush of period p holds exactly one record
\* for each active config whose bucket of p is in the cache and decodable,
\* of the variant of the config's Type and with the bucket's content, and
\* no other record.
C33_BatchIsDecodableBuckets ==
    [][FlushedBatch
         => LET keys == {k \in Bucketed(cache, ds, now, last'.ps) :
                            Decodable(ds[k].Type,
                                      cache[BucketKey(ds[k], last'.ps, 0)].Value)}
            IN  /\ last'.batch =
                      {RecordOf(ds[k], cache[BucketKey(ds[k], last'.ps, 0)].Value) :
                          k \in keys}
                /\ Cardinality(last'.batch) = Cardinality(keys)]_vars

\* C33 amended: the batch holds exactly one record for each active config
\* whose bucket of p is in the cache and is a counter bucket or decodable;
\* a counter bucket that is not a decimal number gives Count = 0.
C33_BatchIsBucketsButBadLists ==
    [][FlushedBatch
         => LET keys == {k \in Bucketed(cache, ds, now, last'.ps) :
                            \/ ds[k].Type = scTypeCounter
                            \/ Decodable(ds[k].Type,
                                         cache[BucketKey(ds[k], last'.ps, 0)].Value)}
            IN  /\ last'.batch =
                      {RecordOf(ds[k], cache[BucketKey(ds[k], last'.ps, 0)].Value) :
                          k \in keys}
                /\ Cardinality(last'.batch) = Cardinality(keys)
                /\ \A r \in last'.batch :
                      r.kind = (IF r.StatConfig.Type = scTypeCounter
                                THEN "StatDataCounter"
                                ELSE IF r.StatConfig.Type = scTypeGauge
                                THEN "StatDataGauge" ELSE "StatDataTiming")]_vars

\* C33 happens: a flush handed the flusher the records of two metrics of
\* different types, all their buckets being as the recorders wrote them
C33_Witness ==
    /\ last.op = "UpdateBackend"
    /\ last.sink = "ok"
    /\ Cardinality(last.batch) = 2
    /\ Cardinality({r.kind : r \in last.batch}) = 2
    /\ disturbed = {}


\* the store keys of the gauge and timing configs whose bucket of
\* periodStart is in the cache and does not decode
BadLists(c, d, t, periodStart) ==
    {k \in Bucketed(c, d, t, periodStart) :
        /\ d[k].Type \in {scTypeGauge, scTypeTiming}
        /\ ~Decodable(d[k].Type, c[BucketKey(d[k], periodStart, 0)].Value)}

\* the store keys of the counter configs whose bucket of periodStart is in
\* the cache and is not a decimal number
BadCounters(c, d, t, periodStart) ==
    {k \in Bucketed(c, d, t, periodStart) :
        /\ d[k].Type = scTypeCounter
        /\ ~Decodable(d[k].Type, c[BucketKey(d[k], periodStart, 0)].Value)}

\* C34: a gauge or timing bucket that does not decode is skipped and the
\* flush goes on: the records of all other buckets are handed to the
\* flusher and, when it returns nil and the write succeeds, ss-lpf holds
\* the period; a counter bucket that is not a decimal number is handed over
\* with Count = 0.
C34_BadBucketSkippedNotFatal ==
    [][Flushing
         => LET ps == last'.ps
                rest == Bucketed(cache, ds, now, ps) \ BadLists(cache, ds, now, ps)
            IN  /\ (nfaults' = nfaults /\ last'.res # "ErrStatFlushTooSoon"
                       /\ rest # {})
                      => /\ last'.sink = "ok"
                         /\ last'.res = "nil"
                         /\ StoredLpf(cache', now) = ps
                /\ last'.sink # "none"
                      => /\ last'.batch =
                               {RecordOf(ds[k], cache[BucketKey(ds[k], ps, 0)].Value) :
                                   k \in rest}
                         /\ \A k \in BadLists(cache, ds, now, ps) :
                               \A r \in last'.batch : r.StatConfig # ds[k]
                         /\ \A k \in BadCounters(cache, ds, now, ps) :
                               [kind |-> "StatDataCounter", StatConfig |-> ds[k],
                                Count |-> 0] \in last'.batch
                /\ last'.res # "panic"]_vars

\* C34 happens: a flush that met a gauge or timing bucket it could not
\* decode handed the flusher the record of another bucket and ss-lpf holds
\* the period
C34_Witness ==
    /\ last.op = "UpdateBackend"
    /\ last.sink = "ok"
    /\ last.res = "nil"
    /\ BadLists(cache, ds, now, last.ps) # {}
    /\ last.batch # {}
    /\ StoredLpf(cache, now) = last.ps

\* C34 happens for a counter: a flush that met a counter bucket that is not
\* a decimal number handed the flusher its record with Count = 0
C34_WitnessCounter ==
    /\ last.op = "UpdateBackend"
    /\ last.sink = "ok"
    /\ \E k \in BadCounters(cache, ds, now, last.ps) :
          [kind |-> "StatDataCounter", StatConfig |-> ds[k], Count |-> 0]
              \in last.batch


(***************************************************************************)
(* The compare-and-swap write path                                         *)
(***************************************************************************)
\* how many times x occurs in the list
RECURSIVE Occurrences(_, _)
Occurrences(list, x) ==
    IF list = <<>> THEN 0
    ELSE (IF Head(list) = x THEN 1 ELSE 0) + Occurrences(Tail(list), x)

\* C35: in the compare-and-swap write path a RecordTiming call that returns
\* nil has added its sample to the bucket exactly once, also with another
\* writer at work and when the bucket disappears between the read and the
\* swap: at the return the bucket holds the sample once.
C35_CasAddsSampleOnce ==
    [][\A h \in Handlers :
          (handlers[h].pc # "done" /\ handlers'[h].pc = "done"
             /\ handlers'[h].res = "nil")
            => /\ CacheHas(cache', handlers[h].key, now)
               /\ Occurrences(gobUnmarshal(cache'[handlers[h].key].Value,
                                           "[]float64").v,
                              handlers[h].value) = 1]_vars


(***************************************************************************)
(* Keys                                                                    *)
(***************************************************************************)
\* C36: two different metrics (type, name, source), whatever their names
\* and sources, have different durable keys, different config cache keys
\* and different bucket keys, so after one recording of each the store
\* holds two StatConfigs and the cache two buckets.
C36_DistinctMetricsDistinctKeys ==
    Len(registry.done) = 2
      => LET m1 == registry.done[1].metric
             m2 == registry.done[2].metric
         IN  /\ getStatConfigKeyName(m1[1], m1[2], m1[3])
                   # getStatConfigKeyName(m2[1], m2[2], m2[3])
             /\ getStatConfigMemcacheKey(m1[1], m1[2], m1[3])
                   # getStatConfigMemcacheKey(m2[1], m2[2], m2[3])
             /\ registry.done[1].key # registry.done[2].key
             /\ Cardinality(DOMAIN ds) = 2
             /\ ds[getStatConfigKeyName(m2[1], m2[2], m2[3])].Name = m2[2]
             /\ ds[getStatConfigKeyName(m2[1], m2[2], m2[3])].Source = m2[3]


(***************************************************************************)
(* No empty list is cached                                                 *)
(***************************************************************************)
\* the gauge and timing bucket keys of the handlers that are in the cache
ListBuckets ==
    {handlers[h].key : h \in {g \in Handlers :
                                 handlers[g].typ \in {scTypeGauge, scTypeTiming}}}
        \cap {k \in DOMAIN cache : CacheHas(cache, k, now)}

\* C37: under any interleaving of RecordGauge and RecordTiming calls, also
\* over a missing bucket or one that does not decode, no gauge or timing
\* bucket in the cache decodes to an empty list: each holds bad data nobody
\* has overwritten yet or a list of length >= 1, and no flush reaches the
\* panic on an empty list.
C37_NoEmptyListCached ==
    /\ \A k \in ListBuckets :
          \/ /\ Decodable(scTypeGauge, cache[k].Value)
             /\ Len(Bucket(k).v) >= 1
          \/ /\ cache[k].Value.enc = BadData.enc
             /\ k \in disturbed
    /\ \A k \in ListBuckets, typ \in {scTypeGauge, scTypeTiming} :
          summarise(StatConfig(typ, "", "", now), cache[k].Value).out # "panic"
    /\ last.res # "panic"
    /\ \A h \in Handlers :
          (handlers[h].pc = "done" /\ handlers[h].res = "nil"
             /\ handlers[h].typ \in {scTypeGauge, scTypeTiming}
             /\ last.op = handlers[h].op /\ last.key = handlers[h].key
             /\ last.value = handlers[h].value /\ last.res = "nil")
            => /\ handlers[h].key \in ListBuckets
               /\ Decodable(scTypeGauge, cache[handlers[h].key].Value)

\* C37 happens: a recorder has written over a bucket that held bad data,
\* and the bucket decodes to a list of one sample
C37_Witness ==
    \E h \in Handlers :
        /\ handlers[h].pc = "done" /\ handlers[h].res = "nil"
        /\ handlers[h].typ = scTypeTiming
        /\ handlers[h].key \in disturbed
        /\ handlers[h].key \in ListBuckets
        /\ Decodable(scTypeTiming, cache[handlers[h].key].Value)
        /\ Len(Bucket(handlers[h].key).v) = 1


(***************************************************************************)
(* Dormant configs                                                         *)
(***************************************************************************)
\* C38: a metric that is being recorded is not skipped as dormant: when an
\* IncrementCounter in which no call fails returns nil, getActiveConfigs
\* for the start of the present period holds the metric's config under its
\* bucket key, however the expiry of the cached config falls relative to
\* the 48 hours.
C38_RecordedMetricIsActive ==
    [][(last'.op = "IncrementCounter" /\ last'.res = "nil"
          /\ nops' = nops + 1 /\ nfaults' = nfaults)
         => last'.key \in DOMAIN getActiveConfigs(ds',
                                     getStartOfFlushPeriod(now, 0), 0,
                                     FALSE, {}).cfgs]_vars

\* C39: the first recording after a Purge that returned nil, when it
\* returns nil and none of its calls fails, leaves a durable StatConfig of
\* its metric in the store, read at that instant, and getActiveConfigs for
\* the start of the period of the recording holds the metric.
C39_RecordingAfterPurgeRecreatesConfig ==
    [][(/\ last.op = "Purge" /\ last.res = "nil"
        /\ last'.op \in RecorderOps /\ last'.res = "nil"
        /\ nfaults' = nfaults)
       => /\ \E k \in DOMAIN ds' :
                /\ BucketKey(ds'[k], now', 0) = last'.key
                /\ ds'[k].LastRead = now'
          /\ last'.key \in DOMAIN getActiveConfigs(ds',
                                      getStartOfFlushPeriod(now', 0), 0,
                                      FALSE, {}).cfgs]_vars

(***************************************************************************)
(* The last period flushed                                                 *)
(***************************************************************************)
\* C40: ss-lpf never decreases: every UpdateBackend that writes ss-lpf,
\* forced or not and whatever its periodStart, leaves a stored value
\* greater than or equal to the one it replaces.
C40_LpfNeverDecreases ==
    [][(IsFlush(last') /\ nops' = nops + 1
          /\ LpfEntry(cache') # LpfEntry(cache))
         => StoredLpf(cache', now') >= StoredLpf(cache, now)]_vars

====
